---------------------------- MODULE Spec2Model ----------------------------
(***************************************************************************)
(* Verification model of the tuwien-osue repository.                       *)
(*                                                                         *)
(* Part 1: task1/mastermind/client.c, the automatic Mastermind client      *)
(* (8 colors, 5 slots).  Codes, masks and results are kept as the          *)
(* integers the C code keeps them in: a guess is a uint16_t holding five   *)
(* 3-bit colors and a parity bit, a possible[] entry is a uint8_t holding  *)
(* a 5-bit slot mask and a 3-bit occurrence count.                         *)
(***************************************************************************)
EXTENDS Integers, Sequences, FiniteSets, TLC

(***************************************************************************)
(* Program constants (client.c:31-54)                                      *)
(***************************************************************************)
SLOTS == 5

COLOR_WIDTH == 3

COLORS == 8

ERROR_PARITY == 1

ERROR_GAME_LOST == 2

ERROR_MULTIPLE == 3

GAME_ERROR_BIT == 128

ALL_SLOTS == 31

(***************************************************************************)
(* Bounds of the model                                                     *)
(***************************************************************************)
\* Secrets are sampled from the 8^5 codes: every SecretStride-th packed value
\* starting at SecretOffset, NumSecrets of them, plus the fixed scenarios.
NumSecrets == 100

\* Longest candidate list and longest processed list of the selector
\* specification.
MaxCand == 3

MaxProc == 2

(***************************************************************************)
(* Bit arithmetic on the C integer types                                   *)
(***************************************************************************)
\* 1 << n
Pow2(n) == 2 ^ n

\* a & b on w-bit values
RECURSIVE BitAnd(_, _, _)
BitAnd(a, b, w) ==
    IF w = 0 THEN 0
    ELSE (a % 2) * (b % 2) + 2 * BitAnd(a \div 2, b \div 2, w - 1)

\* a | b on w-bit values
RECURSIVE BitOr(_, _, _)
BitOr(a, b, w) ==
    IF w = 0 THEN 0
    ELSE (IF (a % 2) + (b % 2) > 0 THEN 1 ELSE 0)
         + 2 * BitOr(a \div 2, b \div 2, w - 1)

\* (uint8_t) ~a
Not8(a) == 255 - (a % 256)

\* a & ~b on uint8_t
AndNot8(a, b) == BitAnd(a, Not8(b), 8)


(***************************************************************************)
(* Code Model: response macros, parity, packing (client.c:43-46, 501-607)  *)
(***************************************************************************)
\* RED with the mask 0x3
RED_two_bits(resp) == resp % 4

\* RED(resp)
RED(resp) == resp % 8

\* WHITE without the mask: the error bits stay in
WHITE_unmasked(resp) == resp \div 8

\* WHITE(resp)
WHITE(resp) == (resp \div 8) % 8

\* TOTAL(resp)
TOTAL(resp) == RED(resp) + WHITE(resp)

\* RESPONSE_ERROR(resp)
RESPONSE_ERROR(resp) == (resp \div 64) % 4

\* compute_parity running its loop over all 16 bits of *req
compute_parity_all_bits(req) ==
    LET RECURSIVE X(_, _)
        X(p, j) == IF j = 0 THEN 0 ELSE ((p % 2) + X(p \div 2, j - 1)) % 2
    IN  (req % Pow2(15)) + Pow2(15) * X(req, 16)

\* XOR of the SLOTS * COLOR_WIDTH low bits of p, as the loop of compute_parity
RECURSIVE ParityLoop(_, _)
ParityLoop(p, j) ==
    IF j = 0 THEN 0
    ELSE ((p % 2) + ParityLoop(p \div 2, j - 1)) % 2

\* compute_parity: clear bit 15, then set it to the parity of bits 0..14
compute_parity(req) ==
    (req % Pow2(15)) + Pow2(15) * ParityLoop(req, SLOTS * COLOR_WIDTH)

\* add_color: the new *req; a position >= SLOTS leaves it alone (returns -1)
add_color(req, color, position) ==
    IF position >= SLOTS THEN req
    ELSE LET sh == Pow2(position * COLOR_WIDTH)
             old == (req \div sh) % 8
         IN  (req - old * sh) + color * sh

\* init_request: *req = 0, then add_color for colors[0..num-1]
RECURSIVE InitLoop(_, _, _, _)
InitLoop(req, num, colors, i) ==
    IF i >= num THEN req
    ELSE InitLoop(add_color(req, colors[i + 1], i), num, colors, i + 1)

init_request(num, colors) == InitLoop(0, num, colors, 0)

\* generate_request putting the upper byte first
generate_request_high_first(req) ==
    LET r == compute_parity(req)
    IN  [guess |-> r, buf |-> <<r \div 256, r % 256>>]

\* generate_request: the guess with its parity set, and the two bytes sent
generate_request(req) ==
    LET r == compute_parity(req)
    IN  [guess |-> r, buf |-> <<r % 256, r \div 256>>]

\* calculate_set_bits(num, length)
RECURSIVE calculate_set_bits(_, _)
calculate_set_bits(num, length) ==
    IF length = 0 THEN 0
    ELSE (num % 2) + calculate_set_bits(num \div 2, length - 1)

\* calculate_set_bits(num, SLOTS) for every uint8_t num, and a & m on uint8_t
\* for every m that fits the slots, tabulated once
SetBits == [num \in 0..255 |-> calculate_set_bits(num, SLOTS)]

AndSlots == [a \in 0..255 |-> [m \in 0..31 |-> BitAnd(a, m, 8)]]

\* the while loop without the test that the value lies inside the mask
RECURSIVE CombLoopAnyPosition(_, _, _)
CombLoopAnyPosition(last, mask, count) ==
    IF SetBits[last] # count
    THEN LET l2 == (last + 1) % 256
         IN  IF l2 > mask THEN 0 ELSE CombLoopAnyPosition(l2, mask, count)
    ELSE last

\* the while loop of compute_combination, last_combination a uint8_t
RECURSIVE CombLoop(_, _, _)
CombLoop(last, mask, count) ==
    IF AndSlots[last][mask] # last \/ SetBits[last] # count
    THEN LET l2 == (last + 1) % 256
         IN  IF l2 > mask THEN 0 ELSE CombLoop(l2, mask, count)
    ELSE last

\* the enumeration giving up as soon as the value reaches the mask
RECURSIVE CombLoopBelowMask(_, _, _)
CombLoopBelowMask(last, mask, count) ==
    IF AndSlots[last][mask] # last \/ SetBits[last] # count
    THEN LET l2 == (last + 1) % 256
         IN  IF l2 >= mask THEN 0 ELSE CombLoopBelowMask(l2, mask, count)
    ELSE last

compute_combination_below_mask(last_combination, mask, count) ==
    CombLoopBelowMask((last_combination + 1) % 256, mask, count)

\* compute_combination(last_combination, mask, count)
compute_combination(last_combination, mask, count) ==
    CombLoop((last_combination + 1) % 256, mask, count)

\* compare_perm_equal_pos(cmb1, cmb2): slots in which both hold the same color
RECURSIVE EqLoop(_, _, _)
EqLoop(cmb1, cmb2, i) ==
    IF i = 0 THEN 0
    ELSE (IF cmb1 % 8 = cmb2 % 8 THEN 1 ELSE 0)
         + EqLoop(cmb1 \div 8, cmb2 \div 8, i - 1)

\* the comparison with the mask 0x3 for a slot
compare_perm_two_bits(cmb1, cmb2) ==
    LET RECURSIVE L(_, _, _)
        L(a, b, i) ==
            IF i = 0 THEN 0
            ELSE (IF a % 4 = b % 4 THEN 1 ELSE 0) + L(a \div 8, b \div 8, i - 1)
    IN  L(cmb1, cmb2, SLOTS)

\* the comparison leaving the last slot out
compare_perm_short(cmb1, cmb2) == EqLoop(cmb1, cmb2, SLOTS - 1)

compare_perm_equal_pos(cmb1, cmb2) == EqLoop(cmb1, cmb2, SLOTS)

(***************************************************************************)
(* The arbiter (not part of the repository's sources): it scores a guess   *)
(* against the secret as the GuessResult of the specification defines it.  *)
(***************************************************************************)
\* color of slot i (0..4) of a packed code
SlotColor(code, i) == (code \div Pow2(COLOR_WIDTH * i)) % 8

\* number of slots of a packed code holding color c
CountColor(code, c) == Cardinality({i \in 0..(SLOTS - 1) : SlotColor(code, i) = c})

Min(a, b) == IF a < b THEN a ELSE b

RECURSIVE SumTo(_, _)
SumTo(f, n) == IF n < 0 THEN 0 ELSE f[n] + SumTo(f, n - 1)

\* truthful score: red = exact matches, white = further color matches
Score(secret, guess) ==
    LET r == Cardinality({i \in 0..(SLOTS - 1) :
                            SlotColor(secret, i) = SlotColor(guess, i)})
        t == SumTo([c \in 0..(COLORS - 1) |->
                      Min(CountColor(secret, c), CountColor(guess, c))],
                   COLORS - 1)
    IN  [red |-> r, white |-> t - r]

\* the response byte: bits 0-2 red, bits 3-5 white, bits 6-7 error code
ResponseByte(secret, guess, err) ==
    LET sc == Score(secret, guess)
    IN  sc.red + 8 * sc.white + 64 * err

(***************************************************************************)
(* Combination Tree Builder (client.c:720-838).  A node is a record        *)
(* [color, next_color, mask, combination, first_child]; a chain of         *)
(* siblings (linked by next in the C code) is a sequence, head first, and  *)
(* first_child is the chain of the children (<<>> is NULL).                *)
(***************************************************************************)
\* a node as malloc + memset(0) leave it
ZeroNode ==
    [color |-> 0, next_color |-> 0, mask |-> 0, combination |-> 0,
     first_child |-> <<>>]

\* first color i >= from with possible[i] # 0, COLORS when there is none
RECURSIVE FirstPossible(_, _)
FirstPossible(possible, from) ==
    IF from >= COLORS THEN COLORS
    ELSE IF possible[from] # 0 THEN from
    ELSE FirstPossible(possible, from + 1)

\* the start without the - 1: the lowest combination itself, which the
\* increment of compute_combination then skips
StartCombinationLowest(needed) == (255 \div Pow2(COLORS - needed)) % 256

\* the combination the enumeration starts from: (((uint8_t) ~0) >> (COLORS - needed)) - 1
StartCombination(needed) == ((255 \div Pow2(COLORS - needed)) - 1) % 256

\* lines 776-782 and 813-820: a first child that came back without a
\* combination is freed and dropped
DropEmptyChild(children) ==
    IF children # <<>> /\ children[1].combination = 0 THEN <<>> ELSE children

\* the even case without sibling->next = self->next: the chain behind the
\* head is lost
InsertSiblingLosingTail(chain, sibling, entropy) ==
    IF entropy % 2 = 1 THEN <<sibling>> \o chain
    ELSE <<chain[1], sibling>>

\* lines 797-806: the new sibling becomes the head (odd entropy) or is linked
\* right behind the head (even entropy)
InsertSibling(chain, sibling, entropy) ==
    IF entropy % 2 = 1 THEN <<sibling>> \o chain
    ELSE <<chain[1], sibling>> \o Tail(chain)

RECURSIVE BuildChildren(_, _, _)
RECURSIVE SiblingLoop(_, _, _, _, _, _, _)

\* a node that hands its parent's whole mask on to its children
MakeNodeKeepingMask(possible, i, p_mask, combination) ==
    LET m == BitAnd(p_mask, ALL_SLOTS, 8)
        kids == IF i < COLORS - 1 /\ m # 0
                THEN DropEmptyChild(BuildChildren(possible, m, i + 1))
                ELSE <<>>
    IN  [color |-> i, next_color |-> i + 1, mask |-> m,
         combination |-> combination, first_child |-> kids]

\* a node for color i with this combination under a parent whose mask is
\* p_mask, with its sub-tree (lines 769-783 and 788-822)
MakeNode(possible, i, p_mask, combination) ==
    LET m == BitAnd(AndNot8(p_mask, combination), ALL_SLOTS, 8)
        kids == IF i < COLORS - 1 /\ m # 0
                THEN DropEmptyChild(BuildChildren(possible, m, i + 1))
                ELSE <<>>
    IN  [color |-> i, next_color |-> i + 1, mask |-> m,
         combination |-> combination, first_child |-> kids]

\* the while loop of lines 786-823
SiblingLoop(possible, i, p_mask, mask, needed, combination, st) ==
    LET c == compute_combination(combination, mask, needed)
    IN  IF c = 0 THEN st.chain
        ELSE SiblingLoop(possible, i, p_mask, mask, needed, c,
                [chain |-> InsertSibling(st.chain,
                               MakeNode(possible, i, p_mask, c), st.entropy),
                 entropy |-> st.entropy + 1])

\* build_combination_list called with a parent (*parent # NULL): what the
\* parent's first_child is afterwards.  It stays NULL (<<>>) on the early
\* returns of lines 759-768, which leave the fresh node unattached.
BuildChildren(possible, p_mask, next_color) ==
    LET i == FirstPossible(possible, next_color)
    IN  IF i = COLORS THEN <<ZeroNode>>
        ELSE LET mask == BitAnd(BitAnd(possible[i], ALL_SLOTS, 8), p_mask, 8)
                 needed == possible[i] \div Pow2(SLOTS)
                 first == compute_combination(StartCombination(needed), mask, needed)
             IN  IF mask = 0 \/ first = 0 THEN <<>>
                 ELSE SiblingLoop(possible, i, p_mask, mask, needed, first,
                          [chain |-> <<MakeNode(possible, i, p_mask, first)>>,
                           entropy |-> 1])

\* build_combination_list called for the root (*parent = NULL): the chain
\* that list points to afterwards
build_combination_list(possible) ==
    LET i == FirstPossible(possible, 0)
        root == [ZeroNode EXCEPT !.mask = ALL_SLOTS]
    IN  IF i = COLORS THEN <<root>>
        ELSE LET mask == BitAnd(BitAnd(possible[i], ALL_SLOTS, 8), ALL_SLOTS, 8)
                 needed == possible[i] \div Pow2(SLOTS)
                 first == compute_combination(StartCombination(needed), mask, needed)
             IN  IF mask = 0 \/ first = 0
                 THEN <<[root EXCEPT !.color = i, !.next_color = i + 1]>>
                 ELSE SiblingLoop(possible, i, ALL_SLOTS, mask, needed, first,
                          [chain |-> <<MakeNode(possible, i, ALL_SLOTS, first)>>,
                           entropy |-> 1])

\* the nodes of a chain and of the sub-trees below it: what
\* free_combination_list (lines 705-718) frees
RECURSIVE TreeSize(_)
TreeSize(chain) ==
    IF chain = <<>> THEN 0
    ELSE 1 + TreeSize(chain[1].first_child) + TreeSize(Tail(chain))

\* the nodes build_combination_list malloc'ed (line 723) and left unattached:
\* a node with free slots and a combination got the recursive call of line
\* 774 or 811, and the call found a color but returned at line 761 or 767
\* before linking its node at line 834
RECURSIVE Unattached(_, _)
Unattached(possible, chain) ==
    IF chain = <<>> THEN 0
    ELSE LET n == chain[1]
             called == n.combination # 0 /\ n.color < COLORS - 1 /\ n.mask # 0
             here == IF /\ called
                        /\ n.first_child = <<>>
                        /\ FirstPossible(possible, n.next_color) < COLORS
                     THEN 1 ELSE 0
         IN  here + Unattached(possible, n.first_child)
                  + Unattached(possible, Tail(chain))

(***************************************************************************)
(* Candidate Generator (client.c:851-904)                                  *)
(***************************************************************************)
\* lines 862-867: write the node's color into the slots of its combination
RECURSIVE SetColors(_, _, _, _)
SetColors(guess, color, combination, j) ==
    IF j >= SLOTS THEN guess
    ELSE SetColors(IF combination % 2 = 1 THEN add_color(guess, color, j) ELSE guess,
                   color, combination \div 2, j + 1)

\* a candidate created at every leaf, whatever its path has set
RECURSIVE process_combinations_every_leaf(_, _, _)
process_combinations_every_leaf(chain, guess, counter) ==
    IF chain = <<>> THEN <<>>
    ELSE LET curr == chain[1]
             i == calculate_set_bits(curr.combination, SLOTS)
             g == SetColors(guess, curr.color, curr.combination, 0)
             here == IF curr.first_child # <<>>
                     THEN process_combinations_every_leaf(curr.first_child, g,
                                                          counter + i)
                     ELSE <<g>>
         IN  here \o process_combinations_every_leaf(Tail(chain), guess, counter)

\* process_combinations(info, curr, counter) with info->guess = guess on
\* entry: the candidates it appends, in order
RECURSIVE process_combinations(_, _, _)
process_combinations(chain, guess, counter) ==
    IF chain = <<>> THEN <<>>
    ELSE LET curr == chain[1]
             i == calculate_set_bits(curr.combination, SLOTS)
             g == SetColors(guess, curr.color, curr.combination, 0)
             here == IF curr.first_child # <<>>
                     THEN process_combinations(curr.first_child, g, counter + i)
                     ELSE IF counter + i = SLOTS THEN <<g>> ELSE <<>>
         IN  here \o process_combinations(Tail(chain), guess, counter)

(***************************************************************************)
(* State of the client process (gameinfo_t, client.c:104-133, the globals  *)
(* of lines 205-211, and the locals of the running functions)              *)
(***************************************************************************)
VARIABLES
    pc,             \* where main() / start_game() stands
    secret,         \* the arbiter's secret code (packed like a guess)
    game,           \* the global game pointer: "NULL" or "ALLOCATED"
    terminating,    \* volatile sig_atomic_t terminating
    round,          \* info->round (uint8_t)
    guess,          \* info->guess (uint16_t)
    request_buf,    \* info->request_buf, the two bytes last sent
    response_buf,   \* info->response_buf, the byte last read
    error,          \* info->error
    result,         \* info->result[0..1]: red, white, total, real_hits
    possible,       \* info->possible[0..7]
    comb,           \* info->comb: the combination tree (<<>> is NULL)
    heap,           \* the allocated perm_list_t nodes, by address
    nalloc,         \* number of perm_list_t nodes allocated so far
    first_perm,     \* info->first_perm (0 is NULL)
    last_perm,      \* info->last_perm
    processed,      \* info->processed
    processed_last, \* info->processed_last
    curr,           \* analyse_combinations: the candidate to test next
    ap,             \* analyse_partitions: i, skip
    ac,             \* analyse_colors: i, j, found, total, last_color_missing
    ret,            \* what start_game returned (uint8_t)
    exitcode,       \* the exit status of the process, -1 while it runs
    tree_live,      \* combination_list_t nodes malloc'ed and not yet freed
    sock,           \* the socket: "NONE", "OPEN" or "CLOSED"
    arg,            \* the arguments of a function applied on its own
    ipc,            \* chstat and readin: processes, semaphores, shared memory
    ws              \* websh: spawn_worker, its children and the pipe

vars == <<pc, secret, game, terminating, round, guess, request_buf,
          response_buf, error, result, possible, comb, heap, nalloc,
          first_perm, last_perm, processed, processed_last, curr, ap, ac,
          ret, exitcode, tree_live, sock, arg, ipc, ws>>

\* the variables of the mastermind client
game_vars == <<pc, secret, game, terminating, round, guess, request_buf,
               response_buf, error, result, possible, comb, heap, nalloc,
               first_perm, last_perm, processed, processed_last, curr, ap,
               ac, ret, exitcode, tree_live, sock>>

\* no function is applied on its own, chstat and websh are not running
OthersIdle ==
    /\ arg = <<>>
    /\ ipc = <<>>
    /\ ws = <<>>

NULL == 0

\* the two partitions start_game starts with (client.c:1262-1263)
partitions ==
    [i \in 0..1 |-> IF i = 0 THEN <<0, 0, 1, 2, 3>> ELSE <<4, 4, 5, 6, 7>>]

ZeroResult == [red |-> 0, white |-> 0, total |-> 0, real_hits |-> 0]

\* the packed code with the decimal digits of the slots, slot 0 first
Code(s0, s1, s2, s3, s4) == s0 + 8 * s1 + 64 * s2 + 512 * s3 + 4096 * s4

\* secrets the games are played against
SecretStride == 821

SecretOffset == 5

Scenarios ==
    { Code(0, 0, 1, 2, 3),      \* the first partition probe itself
      Code(1, 0, 0, 2, 3),      \* first partition total 5, no win
      Code(4, 4, 5, 6, 7),      \* the second partition probe itself
      Code(1, 1, 0, 1, 1),      \* second partition total 0
      Code(0, 3, 4, 4, 4),      \* both 4th colors open, white absent
      Code(4, 4, 3, 0, 0),
      Code(7, 0, 0, 3, 0),      \* both 4th colors open, both present
      Code(7, 7, 7, 7, 7),
      Code(0, 0, 7, 7, 7),      \* every color of both loops probed
      Code(3, 3, 3, 3, 3),
      Code(0, 1, 2, 3, 4),
      Code(3, 2, 1, 0, 0) }

Secrets ==
    Scenarios \cup
    { (SecretOffset + k * SecretStride) % Pow2(SLOTS * COLOR_WIDTH) :
        k \in 0..(NumSecrets - 1) }

(***************************************************************************)
(* perm_list_t nodes (client.c:73-82) live in heap: address -> node        *)
(***************************************************************************)
PermNode(combination, red, prev, next) ==
    [combination |-> combination, red |-> red, prev |-> prev, next |-> next]

\* h with node a set to n (a fresh or an allocated address)
HeapPut(h, a, n) ==
    [x \in (DOMAIN h) \cup {a} |-> IF x = a THEN n ELSE h[x]]

\* h without the nodes of as (free)
HeapFree(h, as) == [x \in (DOMAIN h) \ as |-> h[x]]

\* the addresses of the chain that starts at a, following next
RECURSIVE Chain(_, _)
Chain(h, a) ==
    IF a = NULL \/ a \notin DOMAIN h THEN <<>>
    ELSE <<a>> \o Chain(h, h[a].next)

SeqToSet(q) == {q[x] : x \in DOMAIN q}

\* free_perm_list(list) (client.c:840-849): list and every node after it
free_perm_list(h, list) == HeapFree(h, SeqToSet(Chain(h, list)))

(***************************************************************************)
(* commit_guess (client.c:609-672), given the byte the arbiter answers.    *)
(* g is info->guess at the call, partition = <<>> stands for the NULL      *)
(* argument.  The result is the fields it changes, res (what it writes to  *)
(* *result) and its return value ret.                                      *)
(***************************************************************************)
\* lines 613-622: round++, the request built and its bytes
CommitRequest(g, partition) ==
    LET g0 == IF partition # <<>> THEN init_request(SLOTS, partition) ELSE g
        gr == generate_request(g0)
    IN  [round |-> (round + 1) % 256, guess |-> gr.guess, request_buf |-> gr.buf]

\* the code the arbiter reads from the two bytes, low byte first
Received(buf) == (buf[1] + 256 * buf[2]) % Pow2(SLOTS * COLOR_WIDTH)

\* commit_guess putting the new record at the head of the processed list
commit_guess_prepend(g, partition, err) ==
    LET rq == CommitRequest(g, partition)
        resp == ResponseByte(secret, Received(rq.request_buf), err)
        e == RESPONSE_ERROR(resp)
        pl == nalloc + 1
        node == PermNode(rq.guess, RED(resp), NULL, processed)
        h1 == IF processed = NULL THEN heap
              ELSE [heap EXCEPT ![processed].prev = pl]
    IN  [round |-> rq.round, guess |-> rq.guess, request_buf |-> rq.request_buf,
         response_buf |-> resp, error |-> e,
         res |-> [red |-> RED(resp), white |-> WHITE(resp), total |-> TOTAL(resp)],
         heap |-> HeapPut(h1, pl, node), nalloc |-> pl,
         processed |-> pl,
         processed_last |-> IF processed = NULL THEN pl ELSE processed_last,
         ret |-> IF e > 0 THEN (e + GAME_ERROR_BIT) % 256
                 ELSE IF RED(resp) = SLOTS THEN rq.round
                 ELSE 0]

\* lines 632-670
commit_guess(g, partition, err) ==
    LET rq == CommitRequest(g, partition)
        resp == ResponseByte(secret, Received(rq.request_buf), err)
        e == RESPONSE_ERROR(resp)
        pl == nalloc + 1
        node == PermNode(rq.guess, RED(resp),
                         IF processed = NULL THEN NULL ELSE processed_last, NULL)
        h1 == IF processed = NULL THEN heap
              ELSE [heap EXCEPT ![processed_last].next = pl]
    IN  [round |-> rq.round, guess |-> rq.guess, request_buf |-> rq.request_buf,
         response_buf |-> resp, error |-> e,
         res |-> [red |-> RED(resp), white |-> WHITE(resp), total |-> TOTAL(resp)],
         heap |-> HeapPut(h1, pl, node), nalloc |-> pl,
         processed |-> IF processed = NULL THEN pl ELSE processed,
         processed_last |-> pl,
         ret |-> IF e > 0 THEN (e + GAME_ERROR_BIT) % 256
                 ELSE IF RED(resp) = SLOTS THEN rq.round
                 ELSE 0]

\* *result = res: real_hits is left as it was
SetResult(old, res) ==
    [red |-> res.red, white |-> res.white, total |-> res.total,
     real_hits |-> old.real_hits]

\* error codes the arbiter may put into bits 6-7 of its answer
ErrorCodes == {0, ERROR_PARITY, ERROR_GAME_LOST, ERROR_MULTIPLE}

\* the phase going on after commit_guess has returned non-zero
ReturnedIgnored(r) ==
    /\ ret' = r
    /\ pc' = pc

\* main taking whatever start_game returns for a round count
ReturnedAsWon(r) ==
    /\ ret' = r
    /\ pc' = "WON"

\* start_game returns r (lines 1293-1311), main goes on from there
Returned(r) ==
    /\ ret' = r
    /\ pc' = IF r >= GAME_ERROR_BIT THEN "PROTOCOL_ERROR" ELSE "WON"

(***************************************************************************)
(* free_resources (client.c:399-437), bail_out (446-463)                   *)
(***************************************************************************)
\* heap after free_resources when game is allocated: both lists are freed
FreedHeap(h, fp, pr) ==
    LET h1 == IF fp # NULL THEN free_perm_list(h, fp) ELSE h
    IN  IF pr # NULL THEN free_perm_list(h1, pr) ELSE h1

\* close(game->connfd) when connfd >= 0: connfd keeps its value afterwards
CloseSock(k) ==
    IF k = "OPEN" THEN "CLOSED"
    ELSE IF k = "NONE" THEN k
    ELSE "CLOSED_AGAIN"

\* free_resources without the terminating flag and without game = NULL
FreeResourcesUnguarded(h, fp, pr) ==
    /\ terminating' = 1
    /\ IF game # "NULL"
       THEN /\ sock' = CloseSock(sock)
            /\ comb' = <<>>
            /\ tree_live' = tree_live - TreeSize(comb)
            /\ heap' = FreedHeap(h, fp, pr)
            /\ game' = game
       ELSE /\ sock' = sock
            /\ comb' = comb
            /\ tree_live' = tree_live
            /\ heap' = h
            /\ game' = game

\* free_resources(): terminating', game', sock', comb', tree_live', heap'
\* from the current fields, or from the ones given when the caller has just
\* changed them
FreeResourcesWith(h, fp, pr) ==
    IF terminating = 1
    THEN /\ terminating' = terminating
         /\ game' = game
         /\ sock' = sock
         /\ comb' = comb
         /\ tree_live' = tree_live
         /\ heap' = h
    ELSE /\ terminating' = 1
         /\ IF game # "NULL"
            THEN /\ sock' = CloseSock(sock)
                 /\ comb' = <<>>
                 /\ tree_live' = tree_live - TreeSize(comb)
                 /\ heap' = FreedHeap(h, fp, pr)
                 /\ game' = "NULL"
            ELSE /\ sock' = sock
                 /\ comb' = comb
                 /\ tree_live' = tree_live
                 /\ heap' = h
                 /\ game' = game

free_resources == FreeResourcesWith(heap, first_perm, processed)

EXIT_SUCCESS == 0

EXIT_FAILURE == 1

\* bail_out(eval, ...): free_resources(), exit(eval)
BailOutWith(eval, h, fp, pr) ==
    /\ FreeResourcesWith(h, fp, pr)
    /\ pc' = "EXITED"
    /\ exitcode' = eval

(***************************************************************************)
(* main up to the first guess (client.c:1352-1388, 1251-1290)              *)
(***************************************************************************)
Init ==
    /\ OthersIdle
    /\ secret \in Secrets
    /\ pc = "START"
    /\ game = "NULL"
    /\ terminating = 0
    /\ round = 0
    /\ guess = 0
    /\ request_buf = <<0, 0>>
    /\ response_buf = 0
    /\ error = 0
    /\ result = [i \in 0..1 |-> ZeroResult]
    /\ possible = [c \in 0..(COLORS - 1) |-> 0]
    /\ comb = <<>>
    /\ heap = <<>>
    /\ nalloc = 0
    /\ first_perm = NULL
    /\ last_perm = NULL
    /\ processed = NULL
    /\ processed_last = NULL
    /\ curr = NULL
    /\ ap = [i |-> 0, skip |-> 0]
    /\ ac = [i |-> 0, j |-> 0, found |-> 0, total |-> 0,
             last_color_missing |-> <<0, 0>>]
    /\ ret = 0
    /\ exitcode = -1
    /\ tree_live = 0
    /\ sock = "NONE"

\* connect_to_server fails: bail_out with no game allocated yet
ConnectFails ==
    /\ pc = "START"
    /\ BailOutWith(EXIT_FAILURE, heap, first_perm, processed)
    /\ UNCHANGED <<arg, ipc, ws, secret, round, guess, request_buf, response_buf, error,
                   result, possible, nalloc, first_perm, last_perm, processed,
                   processed_last, curr, ap, ac, ret>>

\* connect_to_server succeeds and start_game sets the game up (1255-1290)
StartGame ==
    /\ pc = "START"
    /\ game' = "ALLOCATED"
    /\ sock' = "OPEN"
    /\ possible' = [c \in 0..(COLORS - 1) |-> ALL_SLOTS]
    /\ result' = [i \in 0..1 |-> ZeroResult]
    /\ pc' = "PARTITION_PROBE"
    /\ UNCHANGED <<arg, ipc, ws, secret, terminating, round, guess, request_buf,
                   response_buf, error, comb, tree_live, heap, nalloc,
                   first_perm, last_perm, processed, processed_last, curr,
                   ap, ac, ret, exitcode>>

\* commit_guess cannot write the request or read the answer (624-630)
CommitFault(g, partition) ==
    LET rq == CommitRequest(g, partition)
    IN  /\ round' = rq.round
        /\ guess' = rq.guess
        /\ request_buf' = rq.request_buf
        /\ BailOutWith(EXIT_FAILURE, heap, first_perm, processed)
        /\ UNCHANGED <<arg, ipc, ws, secret, response_buf, error, result, possible, nalloc,
                       first_perm, last_perm, processed, processed_last, curr,
                       ap, ac, ret>>

\* the fields commit_guess always writes
Committed(cg) ==
    /\ round' = cg.round
    /\ guess' = cg.guess
    /\ request_buf' = cg.request_buf
    /\ response_buf' = cg.response_buf
    /\ error' = cg.error
    /\ nalloc' = cg.nalloc
    /\ processed' = cg.processed
    /\ processed_last' = cg.processed_last

(***************************************************************************)
(* Partition Prober: one iteration of the loop of analyse_partitions       *)
(* (client.c:1192-1249)                                                    *)
(***************************************************************************)
\* the degeneracy rules without the red sentinel of line 1223
ForcedResultsNoSentinel(res, i, j) ==
    LET r1 == IF res[i].total = SLOTS
              THEN [res EXCEPT ![j].total = 0, ![j].white = 0, ![j].red = 0]
              ELSE res
    IN  IF r1[i].total = 0
        THEN [r1 EXCEPT ![j].total = SLOTS, ![j].white = 0]
        ELSE r1

\* lines 1205-1229: the results after the degeneracy rules, for the probe
\* of partition i whose complement is j
ForcedResults(res, i, j) ==
    LET r1 == IF res[i].total = SLOTS
              THEN [res EXCEPT ![j].total = 0, ![j].white = 0, ![j].red = 0]
              ELSE res
    IN  IF r1[i].total = 0
        THEN [r1 EXCEPT ![j].total = SLOTS, ![j].red = 1, ![j].white = 0]
        ELSE r1

\* the partition just probed cleared in both degenerate cases
ClearProbed(res, i, j) ==
    IF res[i].total = 0 \/ res[i].total = SLOTS THEN i ELSE -1

\* lines 1205-1229: skip and clear_partition (-1: not set)
ClearPartition(res, i, j) ==
    IF res[i].total = 0 THEN i
    ELSE IF res[i].total = SLOTS THEN j
    ELSE -1

\* lines 1231-1242: the four entries of partition clear_partition zeroed
ClearPossible(poss, clear_partition) ==
    [c \in 0..(COLORS - 1) |->
        IF c \in (clear_partition * 4)..(clear_partition * 4 + 3)
        THEN 0 ELSE poss[c]]

\* first partition from i on that analyse_colors probes (line 1096), else 2
RECURSIVE NextPartition(_, _)
NextPartition(res, i) ==
    IF i >= 2 THEN 2
    ELSE IF res[i].total > 0 THEN i
    ELSE NextPartition(res, i + 1)

\* the locals of analyse_colors when it reaches its first probe
ColorsEntry(res) ==
    [i |-> NextPartition(res, 0), j |-> 0, found |-> 0, total |-> 0,
     last_color_missing |-> <<0, 0>>]

AnalysePartitionsFault ==
    /\ pc = "PARTITION_PROBE"
    /\ CommitFault(guess, partitions[ap.i])

AnalysePartitionsOn(errs) ==
    /\ pc = "PARTITION_PROBE"
    /\ \E err \in errs :
        LET i == ap.i
            j == (i + 1) % 2
            cg == commit_guess(guess, partitions[i], err)
            res1 == [result EXCEPT ![i] = SetResult(result[i], cg.res)]
            clr == ClearPartition(res1, i, j)
            res2 == ForcedResults(res1, i, j)
            skip == IF clr # -1 THEN 1 ELSE ap.skip
        IN  /\ Committed(cg)
            /\ heap' = cg.heap
            /\ IF cg.ret # 0
               THEN /\ result' = res1
                    /\ Returned(cg.ret)
                    /\ UNCHANGED <<possible, ap, ac>>
               ELSE /\ result' = res2
                    /\ possible' = IF skip = 1 THEN ClearPossible(possible, clr)
                                   ELSE possible
                    /\ ap' = [i |-> i + 1, skip |-> skip]
                    /\ IF i + 1 < 2 /\ skip = 0
                       THEN /\ pc' = "PARTITION_PROBE"
                            /\ UNCHANGED <<ac, ret>>
                       ELSE /\ pc' = "COLOR_PROBE"
                            /\ ac' = ColorsEntry(res2)
                            /\ UNCHANGED ret
    /\ UNCHANGED <<arg, ipc, ws, secret, game, sock, terminating, comb, tree_live,
                   first_perm, last_perm, curr, exitcode>>

(***************************************************************************)
(* Color Counter: analyse_colors (client.c:1085-1190).  ac holds its       *)
(* locals at the commit_guess call it stands at: ac.i < 2 is the probe of  *)
(* color 4 * ac.i + ac.j in the loop, ac.i = 2 the probe of line 1157.     *)
(***************************************************************************)
\* possible[k] |= (total << SLOTS) on uint8_t
WithCount(p, total) == BitOr(p, (total * Pow2(SLOTS)) % 256, 8)

\* the early-termination test with its third rule applied to both loops
ColorsBreakEither(res, i, found, total) ==
    \/ found = res[i].total
    \/ total = SLOTS
    \/ total + res[1].total = SLOTS

\* lines 1125-1126: the early-termination test, found already incremented
ColorsBreak(res, i, found, total) ==
    \/ found = res[i].total
    \/ total = SLOTS
    \/ (i = 0 /\ total + res[1].total = SLOTS)

\* line 1130: memset(&info->possible[k + 1], 0, 3 - j)
ClearAfter(poss, k, j) ==
    [c \in 0..(COLORS - 1) |->
        IF c >= k + 1 /\ c <= k + (3 - j) THEN 0 ELSE poss[c]]

\* the last color of partition i marked present once, whatever is left
ColorsRemainderOne(poss, res, total, i) ==
    [possible |->
        IF SLOTS - total = 0
        THEN [poss EXCEPT ![i * 4 + 3] = 0]
        ELSE [poss EXCEPT ![i * 4 + 3] = WithCount(@, 1)],
     result |-> [res EXCEPT ![i].real_hits = (@ + (SLOTS - total)) % 256]]

\* lines 1172-1177: the last color of partition i takes what is left
ColorsRemainder(poss, res, total, i) ==
    [possible |->
        IF SLOTS - total = 0
        THEN [poss EXCEPT ![i * 4 + 3] = 0]
        ELSE [poss EXCEPT ![i * 4 + 3] = WithCount(@, SLOTS - total)],
     result |-> [res EXCEPT ![i].real_hits = (@ + (SLOTS - total)) % 256]]

\* lines 1146-1186 when the probe of line 1157 is not made
ColorsTail(poss, res, total, last_color_missing) ==
    IF total < SLOTS
    THEN ColorsRemainder(poss, res, total,
                         IF last_color_missing[1] = 1 THEN 0 ELSE 1)
    ELSE [possible |-> [poss EXCEPT ![3] = 0, ![7] = 0], result |-> res]

\* line 1146-1152: the loops are over and the probe of line 1157 is needed
NeedsExtraProbe(a) ==
    /\ a.total < SLOTS
    /\ a.last_color_missing[1] = 1
    /\ a.last_color_missing[2] = 1

\* where analyse_colors stands once the loops have got to a (a.i = 2: the
\* loops are over): at a further commit_guess, or it has returned 0
ColorsContinue(a, poss, res) ==
    IF a.i < 2 \/ NeedsExtraProbe(a)
    THEN /\ pc' = "COLOR_PROBE"
         /\ ac' = a
         /\ possible' = poss
         /\ result' = res
    ELSE LET t == ColorsTail(poss, res, a.total, a.last_color_missing)
         IN  /\ pc' = "POSITION_REFINE"
             /\ ac' = [a EXCEPT !.total = IF a.total < SLOTS THEN SLOTS ELSE @]
             /\ possible' = t.possible
             /\ result' = t.result

\* lines 1137-1140 and the step of the outer loop to the next partition
EndPartition(a, res, found) ==
    [i |-> NextPartition(res, a.i + 1), j |-> 0, found |-> 0, total |-> a.total,
     last_color_missing |->
        IF found < res[a.i].total
        THEN [a.last_color_missing EXCEPT ![a.i + 1] = 1]
        ELSE a.last_color_missing]

\* every color probed with the first color of its partition
MonochromeFirst(k) ==
    LET c == 4 * (k \div 4) IN <<c, c, c, c, c>>

Monochrome(k) == <<k, k, k, k, k>>

\* the inner loop going on to the fourth color of the partition
InnerLoopEndsFour(j) == j + 1 >= 4

\* line 1101: the inner loop has probed its last color once k = 4 * i + 2
\* is done (k < (i * 4) + 3 fails after the step)
InnerLoopEnds(j) == j + 1 >= 3

AnalyseColorsFault ==
    /\ pc = "COLOR_PROBE"
    /\ CommitFault(guess, Monochrome(IF ac.i < 2 THEN 4 * ac.i + ac.j ELSE 7))

\* one iteration of the inner loop (lines 1101-1135)
AnalyseColorsProbeOn(errs) ==
    /\ pc = "COLOR_PROBE"
    /\ ac.i < 2
    /\ \E err \in errs :
        LET i == ac.i
            j == ac.j
            k == 4 * i + j
            cg == commit_guess(guess, Monochrome(k), err)
            hit == cg.res.total # 0
            total == IF hit THEN (ac.total + cg.res.total) % 256 ELSE ac.total
            found == IF hit THEN (ac.found + 1) % 256 ELSE ac.found
            res1 == IF hit
                    THEN [result EXCEPT
                            ![i].real_hits = (@ + cg.res.total) % 256]
                    ELSE result
            brk == hit /\ ColorsBreak(res1, i, found, total)
            poss1 == IF ~hit THEN [possible EXCEPT ![k] = 0]
                     ELSE LET p1 == [possible EXCEPT ![k] = WithCount(@, cg.res.total)]
                          IN  IF brk THEN ClearAfter(p1, k, j) ELSE p1
            a1 == [ac EXCEPT !.total = total, !.found = found]
            a2 == IF brk \/ InnerLoopEnds(j)
                  THEN EndPartition(a1, res1, found)
                  ELSE [a1 EXCEPT !.j = j + 1]
        IN  /\ Committed(cg)
            /\ heap' = cg.heap
            /\ IF cg.ret # 0
               THEN /\ Returned(cg.ret)
                    /\ UNCHANGED <<possible, result, ac>>
               ELSE /\ ColorsContinue(a2, poss1, res1)
                    /\ UNCHANGED ret
    /\ UNCHANGED <<arg, ipc, ws, secret, game, sock, terminating, comb, tree_live,
                   first_perm, last_perm, curr, ap, exitcode>>

\* the probe of the last color of the second partition (lines 1152-1165) and
\* what follows it
AnalyseColorsExtraOn(errs) ==
    /\ pc = "COLOR_PROBE"
    /\ ac.i = 2
    /\ \E err \in errs :
        LET cg == commit_guess(guess, Monochrome(7), err)
            total == (ac.total + cg.res.total) % 256
            res1 == [result EXCEPT ![1].real_hits = (@ + cg.res.total) % 256]
            poss1 == [possible EXCEPT ![7] = WithCount(@, cg.res.total)]
            t == ColorsRemainder(poss1, res1, total, 0)
        IN  /\ Committed(cg)
            /\ heap' = cg.heap
            /\ IF cg.ret # 0
               THEN /\ Returned(cg.ret)
                    /\ UNCHANGED <<possible, result, ac>>
               ELSE /\ pc' = "POSITION_REFINE"
                    /\ ac' = [ac EXCEPT !.total = SLOTS]
                    /\ possible' = t.possible
                    /\ result' = t.result
                    /\ UNCHANGED ret
    /\ UNCHANGED <<arg, ipc, ws, secret, game, sock, terminating, comb, tree_live,
                   first_perm, last_perm, curr, ap, exitcode>>

(***************************************************************************)
(* Position Refiner: analyse_possible (client.c:1038-1083)                 *)
(***************************************************************************)
\* the first rule clearing slot j + 1 instead of slot j
RECURSIVE SetImpossibleNextSlot(_, _, _)
SetImpossibleNextSlot(poss, part, j) ==
    IF j >= SLOTS THEN poss
    ELSE LET c == part[j + 1]
         IN  SetImpossibleNextSlot(
                IF poss[c] # 0
                THEN [poss EXCEPT ![c] = AndNot8(@, Pow2((j + 1) % SLOTS))]
                ELSE poss,
                part, j + 1)

\* lines 1046-1056: clear slot j from the color probed there
RECURSIVE SetImpossible(_, _, _)
SetImpossible(poss, part, j) ==
    IF j >= SLOTS THEN poss
    ELSE LET c == part[j + 1]
         IN  SetImpossible(
                IF poss[c] # 0
                THEN [poss EXCEPT ![c] = AndNot8(@, Pow2(j))]
                ELSE poss,
                part, j + 1)

\* lines 1064-1070: keep only the occurrence count of each probed color
RECURSIVE ClearSlots(_, _, _)
ClearSlots(poss, part, j) ==
    IF j >= SLOTS THEN poss
    ELSE ClearSlots([poss EXCEPT ![part[j + 1]] =
                        BitAnd(@, (7 * Pow2(SLOTS)) % 256, 8)],
                    part, j + 1)

\* lines 1072-1078: set slot j for the color probed there
RECURSIVE SetProbed(_, _, _)
SetProbed(poss, part, j) ==
    IF j >= SLOTS THEN poss
    ELSE LET c == part[j + 1]
         IN  SetProbed(
                IF poss[c] # 0
                THEN [poss EXCEPT ![c] = BitOr(@, Pow2(j), 8)]
                ELSE poss,
                part, j + 1)

\* the iteration fixing the probed slots whenever any slot was hit
RefinePartitionAnyHit(poss, res, i) ==
    IF res[i].red = 0 THEN SetImpossible(poss, partitions[i], 0)
    ELSE SetProbed(ClearSlots(poss, partitions[i], 0), partitions[i], 0)

\* one iteration of the loop over the partitions
RefinePartition(poss, res, i) ==
    IF res[i].red = 0 THEN SetImpossible(poss, partitions[i], 0)
    ELSE IF res[i].red = res[i].real_hits
    THEN SetProbed(ClearSlots(poss, partitions[i], 0), partitions[i], 0)
    ELSE poss

analyse_possible(poss, res) ==
    RefinePartition(RefinePartition(poss, res, 0), res, 1)

AnalysePossible ==
    /\ pc = "POSITION_REFINE"
    /\ possible' = analyse_possible(possible, result)
    /\ pc' = "TREE_BUILD"
    /\ UNCHANGED <<arg, ipc, ws, secret, game, sock, terminating, round, guess,
                   request_buf, response_buf, error, result, comb, tree_live,
                   heap, nalloc, first_perm, last_perm, processed,
                   processed_last, curr, ap, ac, ret, exitcode>>

(***************************************************************************)
(* analyse_combinations up to its loop (client.c:967-985)                  *)
(***************************************************************************)
\* info->guess when process_combinations returns
RECURSIVE LastGuess(_, _)
LastGuess(chain, g0) ==
    IF chain = <<>> THEN g0
    ELSE IF Len(chain) > 1 THEN LastGuess(Tail(chain), g0)
    ELSE LET n == chain[1]
             g == SetColors(g0, n.color, n.combination, 0)
         IN  IF n.first_child # <<>> THEN LastGuess(n.first_child, g) ELSE g

\* lines 881-892: the nodes of the candidates cs, linked, at the addresses
\* base + 1 .. base + Len(cs)
WithPerms(h, base, cs) ==
    [x \in (DOMAIN h) \cup ((base + 1)..(base + Len(cs))) |->
        IF x \in DOMAIN h THEN h[x]
        ELSE PermNode(cs[x - base], 0,
                      IF x = base + 1 THEN NULL ELSE x - 1,
                      IF x = base + Len(cs) THEN NULL ELSE x + 1)]

\* the tree dropped instead of being kept in game->comb
StoredTreeDropped(list) == <<>>

\* line 980: game->comb = list
StoredTree(list) == list

BuildCandidates ==
    /\ pc = "TREE_BUILD"
    /\ LET list == build_combination_list(possible)
           cs == process_combinations(list, 0, 0)
       IN  /\ comb' = StoredTree(list)
           /\ tree_live' = tree_live + TreeSize(list)
                              + Unattached(possible, list)
           /\ guess' = LastGuess(list, 0)
           /\ heap' = WithPerms(heap, nalloc, cs)
           /\ nalloc' = nalloc + Len(cs)
           /\ first_perm' = IF cs = <<>> THEN NULL ELSE nalloc + 1
           /\ last_perm' = IF cs = <<>> THEN NULL ELSE nalloc + Len(cs)
           /\ curr' = IF cs = <<>> THEN NULL ELSE nalloc + 1
    /\ pc' = "ROUND_LOOP"
    /\ UNCHANGED <<arg, ipc, ws, secret, game, sock, terminating, round, request_buf,
                   response_buf, error, result, possible, processed,
                   processed_last, ap, ac, ret, exitcode>>

(***************************************************************************)
(* Guess Selector: find_best_perm (client.c:927-965)                       *)
(***************************************************************************)
\* the inner loop stopping after the first processed guess
MatchingFirstOnly(h, p, q) ==
    IF q = NULL THEN TRUE
    ELSE compare_perm_equal_pos(h[p].combination, h[q].combination) = h[q].red

\* the inner loop: does p fit every processed guess from q on
RECURSIVE Matching(_, _, _)
Matching(h, p, q) ==
    IF q = NULL THEN TRUE
    ELSE IF compare_perm_equal_pos(h[p].combination, h[q].combination) # h[q].red
    THEN FALSE
    ELSE Matching(h, p, h[q].next)

\* the outer loop from p on
RECURSIVE FindFrom(_, _, _)
FindFrom(h, p, pr) ==
    IF p = NULL THEN NULL
    ELSE IF Matching(h, p, pr) THEN p
    ELSE FindFrom(h, h[p].next, pr)

\* the outer loop going on after a match: the last matching candidate
RECURSIVE FindLast(_, _, _)
FindLast(h, p, pr) ==
    IF p = NULL THEN NULL
    ELSE LET later == FindLast(h, h[p].next, pr)
         IN  IF later # NULL THEN later
             ELSE IF Matching(h, p, pr) THEN p
             ELSE NULL

find_best_perm_last(h, fp, pr) == FindLast(h, fp, pr)

find_best_perm(h, fp, pr) == FindFrom(h, fp, pr)

(***************************************************************************)
(* One round of the loop of analyse_combinations (client.c:988-1032)       *)
(***************************************************************************)
\* lines 999-1009
UnlinkPrev(st, c) ==
    IF st.heap[c].prev = NULL
    THEN [heap |-> IF st.heap[c].next # NULL
                   THEN [st.heap EXCEPT ![st.heap[c].next].prev = NULL]
                   ELSE st.heap,
          first_perm |-> st.heap[c].next,
          last_perm |-> st.last_perm]
    ELSE [st EXCEPT !.heap[st.heap[c].prev].next = st.heap[c].next]

\* lines 1011-1018
UnlinkNext(st, c) ==
    IF st.heap[c].next = NULL
    THEN [heap |-> IF st.heap[c].prev # NULL
                   THEN [st.heap EXCEPT ![st.heap[c].prev].next = NULL]
                   ELSE st.heap,
          first_perm |-> st.first_perm,
          last_perm |-> st.heap[c].prev]
    ELSE [st EXCEPT !.heap[st.heap[c].next].prev = st.heap[c].prev]

\* curr->red set and curr left in the candidate list
RemoveCurrKept(h, fp, lp, c, red) ==
    [heap |-> [h EXCEPT ![c].red = red], first_perm |-> fp, last_perm |-> lp]

\* curr unlinked in the forward direction only (lines 1011-1018 left out)
RemoveCurrForward(h, fp, lp, c, red) ==
    LET st0 == [heap |-> [h EXCEPT ![c].red = red],
                first_perm |-> fp, last_perm |-> lp]
        st1 == UnlinkPrev(st0, c)
    IN  [st1 EXCEPT !.heap = HeapFree(@, {c})]

\* lines 996-1023: curr->red set, curr unlinked from the candidates and freed
RemoveCurr(h, fp, lp, c, red) ==
    LET st0 == [heap |-> [h EXCEPT ![c].red = red],
                first_perm |-> fp, last_perm |-> lp]
        st2 == UnlinkNext(UnlinkPrev(st0, c), c)
    IN  [st2 EXCEPT !.heap = HeapFree(@, {c})]

RoundGuessFault ==
    /\ pc = "ROUND_LOOP"
    /\ curr # NULL
    /\ CommitFault(heap[curr].combination, <<>>)

\* curr = NULL at line 990: the candidate list came out empty and the read
\* of curr->combination kills the process
RoundGuessNull ==
    /\ pc' = "KILLED"
    /\ UNCHANGED <<game, sock, terminating, round, guess, request_buf,
                   response_buf, error, result, possible, comb, tree_live,
                   heap, nalloc, first_perm, last_perm, processed,
                   processed_last, curr, ret, exitcode>>

RoundGuessOn(errs) ==
    /\ pc = "ROUND_LOOP"
    /\ IF curr = NULL THEN RoundGuessNull
       ELSE \E err \in errs :
        LET cg == commit_guess(heap[curr].combination, <<>>, err)
            rm == RemoveCurr(cg.heap, first_perm, last_perm, curr, cg.res.red)
            nxt == find_best_perm(rm.heap, rm.first_perm, cg.processed)
        IN  /\ Committed(cg)
            /\ IF cg.ret # 0
               THEN /\ heap' = cg.heap
                    /\ Returned(cg.ret)
                    /\ UNCHANGED <<first_perm, last_perm, curr, game, sock,
                                   terminating, comb, tree_live, exitcode>>
               ELSE /\ first_perm' = rm.first_perm
                    /\ last_perm' = rm.last_perm
                    /\ curr' = nxt
                    /\ UNCHANGED ret
                    /\ IF nxt = NULL
                       THEN BailOutWith(EXIT_FAILURE, rm.heap, rm.first_perm,
                                        cg.processed)
                       ELSE /\ heap' = rm.heap
                            /\ pc' = "ROUND_LOOP"
                            /\ UNCHANGED <<game, sock, terminating, comb,
                                           tree_live, exitcode>>
    /\ UNCHANGED <<arg, ipc, ws, secret, result, possible, ap, ac>>

(***************************************************************************)
(* main after start_game (client.c:1390-1421) and the signal handler       *)
(* (439-444)                                                               *)
(***************************************************************************)
\* the exit status main computes from start_game's return value
ExitStatus(r) ==
    IF r >= GAME_ERROR_BIT THEN (r - GAME_ERROR_BIT) + 1 ELSE 0

MainExit ==
    /\ pc \in {"WON", "PROTOCOL_ERROR"}
    /\ free_resources
    /\ pc' = "EXITED"
    /\ exitcode' = ExitStatus(ret)
    /\ UNCHANGED <<arg, ipc, ws, secret, round, guess, request_buf, response_buf, error,
                   result, possible, nalloc, first_perm, last_perm, processed,
                   processed_last, curr, ap, ac, ret>>

\* SIGINT, SIGQUIT or SIGTERM between two steps of the game
SignalHandler ==
    /\ pc \notin {"EXITED", "KILLED"}
    /\ free_resources
    /\ pc' = "EXITED"
    /\ exitcode' = EXIT_SUCCESS
    /\ UNCHANGED <<arg, ipc, ws, secret, round, guess, request_buf, response_buf, error,
                   result, possible, nalloc, first_perm, last_perm, processed,
                   processed_last, curr, ap, ac, ret>>

(***************************************************************************)
(* The game against an arbiter that may answer with any error code, with   *)
(* transport faults and termination signals                                *)
(***************************************************************************)
AnalysePartitions == AnalysePartitionsOn(ErrorCodes)

AnalyseColorsProbe == AnalyseColorsProbeOn(ErrorCodes)

AnalyseColorsExtra == AnalyseColorsExtraOn(ErrorCodes)

RoundGuess == RoundGuessOn(ErrorCodes)

Next ==
    \/ ConnectFails
    \/ StartGame
    \/ AnalysePartitions
    \/ AnalysePartitionsFault
    \/ AnalyseColorsProbe
    \/ AnalyseColorsExtra
    \/ AnalyseColorsFault
    \/ AnalysePossible
    \/ BuildCandidates
    \/ RoundGuess
    \/ RoundGuessFault
    \/ MainExit
    \/ SignalHandler

Spec == Init /\ [][Next]_vars

(***************************************************************************)
(* The game against a truthful arbiter that never reports an error, on a   *)
(* connection that does not fail, with no signal delivered: the process    *)
(* runs on whenever it can (it only ever waits for the arbiter's answer)   *)
(***************************************************************************)
NoError == {0}

TruthfulPartitions == AnalysePartitionsOn(NoError)

TruthfulColorsProbe == AnalyseColorsProbeOn(NoError)

TruthfulColorsExtra == AnalyseColorsExtraOn(NoError)

TruthfulRoundGuess == RoundGuessOn(NoError)

NextTruthful ==
    \/ StartGame
    \/ TruthfulPartitions
    \/ TruthfulColorsProbe
    \/ TruthfulColorsExtra
    \/ AnalysePossible
    \/ BuildCandidates
    \/ TruthfulRoundGuess
    \/ MainExit

\* main has neither returned nor been killed
Running == pc \notin {"EXITED", "KILLED"}

\* the places control can be at
Labels ==
    {"START", "PARTITION_PROBE", "COLOR_PROBE", "POSITION_REFINE",
     "TREE_BUILD", "ROUND_LOOP", "WON", "PROTOCOL_ERROR", "EXITED", "KILLED"}

\* the running process executes: control moves on or a guess is sent.
\* Every step of NextTruthful is such a step and one is possible whenever
\* the process is running, so the fairness below is that of NextTruthful;
\* the client is one sequential process that blocks only in read and
\* write on the socket, which the arbiter always answers.
Executes ==
    /\ Running
    /\ pc' \in Labels
    /\ round' \in {round, round + 1}
    /\ <<pc, round>>' # <<pc, round>>

SpecTruthful ==
    Init /\ [][NextTruthful]_vars /\ WF_<<pc, round>>(Executes)

(***************************************************************************)
(* The Guess Selector on its own: find_best_perm applied to any candidate  *)
(* list and any processed list within the bounds                           *)
(***************************************************************************)
\* codes the lists are filled from: they agree and differ in enough slots
\* for every exact-match count from 2 to 5 to occur
SelCodes ==
    { Code(0, 0, 0, 0, 0), Code(1, 0, 0, 0, 0), Code(1, 1, 0, 0, 0),
      Code(1, 1, 1, 0, 0) }

\* red counts the processed entries are recorded with
SelReds == {4, 5}

BoundedSeq(S, n) == UNION {[1..k -> S] : k \in 0..n}

\* the processed list ps (pairs <<code, red>>) at addresses 1..Len(ps)
ProcessedHeap(ps) ==
    [x \in 1..Len(ps) |->
        PermNode(ps[x][1], ps[x][2],
                 IF x = 1 THEN NULL ELSE x - 1,
                 IF x = Len(ps) THEN NULL ELSE x + 1)]

SelectInit ==
    /\ OthersIdle
    /\ secret = 0
    /\ pc = "SELECT"
    /\ game = "ALLOCATED"
    /\ terminating = 0
    /\ round = 0
    /\ guess = 0
    /\ request_buf = <<0, 0>>
    /\ response_buf = 0
    /\ error = 0
    /\ result = [i \in 0..1 |-> ZeroResult]
    /\ possible = [c \in 0..(COLORS - 1) |-> 0]
    /\ comb = <<>>
    /\ \E ps \in BoundedSeq(SelCodes \X SelReds, MaxProc) :
       \E cs \in BoundedSeq(SelCodes, MaxCand) :
          /\ heap = WithPerms(ProcessedHeap(ps), Len(ps), cs)
          /\ nalloc = Len(ps) + Len(cs)
          /\ processed = IF ps = <<>> THEN NULL ELSE 1
          /\ processed_last = IF ps = <<>> THEN NULL ELSE Len(ps)
          /\ first_perm = IF cs = <<>> THEN NULL ELSE Len(ps) + 1
          /\ last_perm = IF cs = <<>> THEN NULL ELSE Len(ps) + Len(cs)
    /\ curr = NULL
    /\ ap = [i |-> 0, skip |-> 0]
    /\ ac = [i |-> 0, j |-> 0, found |-> 0, total |-> 0,
             last_color_missing |-> <<0, 0>>]
    /\ ret = 0
    /\ exitcode = -1
    /\ tree_live = 0
    /\ sock = "OPEN"

\* curr = find_best_perm(info)
Select ==
    /\ pc = "SELECT"
    /\ curr' = find_best_perm(heap, first_perm, processed)
    /\ pc' = "SELECTED"
    /\ UNCHANGED <<arg, ipc, ws, secret, game, sock, terminating, round, guess,
                   request_buf, response_buf, error, result, possible, comb,
                   tree_live, heap, nalloc, first_perm, last_perm, processed,
                   processed_last, ap, ac, ret, exitcode>>

SpecSelect == SelectInit /\ [][Select]_vars

(***************************************************************************)
(* The removal of the tested candidate on its own (client.c:996-1026): any *)
(* candidate list within the bounds, curr any of its nodes                 *)
(***************************************************************************)
RemoveInit ==
    /\ OthersIdle
    /\ secret = 0
    /\ pc = "REMOVE"
    /\ game = "ALLOCATED"
    /\ terminating = 0
    /\ round = 0
    /\ guess = 0
    /\ request_buf = <<0, 0>>
    /\ response_buf = 0
    /\ error = 0
    /\ result = [i \in 0..1 |-> ZeroResult]
    /\ possible = [c \in 0..(COLORS - 1) |-> 0]
    /\ comb = <<>>
    /\ \E cs \in BoundedSeq(SelCodes, MaxCand) :
          /\ cs # <<>>
          /\ heap = WithPerms(<<>>, 0, cs)
          /\ nalloc = Len(cs)
          /\ first_perm = 1
          /\ last_perm = Len(cs)
          /\ curr \in 1..Len(cs)
    /\ processed = NULL
    /\ processed_last = NULL
    /\ ap = [i |-> 0, skip |-> 0]
    /\ ac = [i |-> 0, j |-> 0, found |-> 0, total |-> 0,
             last_color_missing |-> <<0, 0>>]
    /\ ret = 0
    /\ exitcode = -1
    /\ tree_live = 0
    /\ sock = "OPEN"

\* curr->red = result.red, curr unlinked and freed, curr = find_best_perm(info)
Remove ==
    /\ pc = "REMOVE"
    /\ \E red \in 0..SLOTS :
          LET rm == RemoveCurr(heap, first_perm, last_perm, curr, red)
          IN  /\ heap' = rm.heap
              /\ first_perm' = rm.first_perm
              /\ last_perm' = rm.last_perm
              /\ curr' = find_best_perm(rm.heap, rm.first_perm, processed)
    /\ pc' = "REMOVED"
    /\ UNCHANGED <<arg, ipc, ws, secret, game, sock, terminating, round, guess,
                   request_buf, response_buf, error, result, possible, comb,
                   tree_live, nalloc, processed, processed_last, ap, ac, ret,
                   exitcode>>

SpecRemove == RemoveInit /\ [][Remove]_vars

(***************************************************************************)
(* The Combination Tree Builder and the Candidate Generator on their own:  *)
(* analyse_combinations entered with two colors of known counts whose      *)
(* position masks are fully free                                           *)
(***************************************************************************)
\* possible[] with color c1 occurring n times, color c2 the other SLOTS - n
\* times, every slot open to both, and no other color
TwoColorPossible(c1, c2, n) ==
    [c \in 0..(COLORS - 1) |->
        IF c = c1 THEN WithCount(ALL_SLOTS, n)
        ELSE IF c = c2 THEN WithCount(ALL_SLOTS, SLOTS - n)
        ELSE 0]

TreeInit ==
    /\ OthersIdle
    /\ secret = 0
    /\ pc = "TREE_BUILD"
    /\ game = "ALLOCATED"
    /\ sock = "OPEN"
    /\ terminating = 0
    /\ round = 0
    /\ guess = 0
    /\ request_buf = <<0, 0>>
    /\ response_buf = 0
    /\ error = 0
    /\ result = [i \in 0..1 |-> ZeroResult]
    /\ \E c1 \in 0..(COLORS - 1), c2 \in 0..(COLORS - 1), n \in 1..(SLOTS - 1) :
          /\ c1 < c2
          /\ possible = TwoColorPossible(c1, c2, n)
    /\ comb = <<>>
    /\ tree_live = 0
    /\ heap = <<>>
    /\ nalloc = 0
    /\ first_perm = NULL
    /\ last_perm = NULL
    /\ processed = NULL
    /\ processed_last = NULL
    /\ curr = NULL
    /\ ap = [i |-> 0, skip |-> 0]
    /\ ac = [i |-> 0, j |-> 0, found |-> 0, total |-> 0,
             last_color_missing |-> <<0, 0>>]
    /\ ret = 0
    /\ exitcode = -1

SpecTree == TreeInit /\ [][BuildCandidates]_vars

(***************************************************************************)
(* free_resources called on its own, twice in a row, at any point of the   *)
(* game: the first call returns instead of being followed by exit          *)
(***************************************************************************)
Release ==
    /\ pc \notin {"EXITED", "KILLED", "RELEASED", "RELEASED_TWICE"}
    /\ free_resources
    /\ pc' = "RELEASED"
    /\ UNCHANGED <<arg, ipc, ws, secret, round, guess, request_buf, response_buf, error,
                   result, possible, nalloc, first_perm, last_perm, processed,
                   processed_last, curr, ap, ac, ret, exitcode>>

ReleaseAgain ==
    /\ pc = "RELEASED"
    /\ free_resources
    /\ pc' = "RELEASED_TWICE"
    /\ UNCHANGED <<arg, ipc, ws, secret, round, guess, request_buf, response_buf, error,
                   result, possible, nalloc, first_perm, last_perm, processed,
                   processed_last, curr, ap, ac, ret, exitcode>>

NextRelease ==
    \/ Next
    \/ Release
    \/ ReleaseAgain

SpecRelease == Init /\ [][NextRelease]_vars

(***************************************************************************)
(* The game with a termination signal delivered between any two            *)
(* statements that change what free_resources reads: start_game,           *)
(* analyse_combinations and its loop are taken statement by statement.     *)
(* arg holds the local variable list of analyse_combinations while the     *)
(* tree is built and not yet stored.                                       *)
(***************************************************************************)
\* line 1255: info = game = malloc(sizeof(gameinfo_t))
StartGameMalloc ==
    /\ pc = "START"
    /\ game' = "UNINITIALISED"
    /\ pc' = "SESSION_MALLOCED"
    /\ UNCHANGED <<arg, ipc, ws, secret, sock, possible, result, terminating,
                   round, guess, request_buf, response_buf, error, comb,
                   tree_live, heap, nalloc, first_perm, last_perm, processed,
                   processed_last, curr, ap, ac, ret, exitcode>>

\* lines 1257-1290: memset(info, 0, ...), connfd, result, partitions, possible
StartGameInit ==
    /\ pc = "SESSION_MALLOCED"
    /\ game' = "ALLOCATED"
    /\ sock' = "OPEN"
    /\ possible' = [c \in 0..(COLORS - 1) |-> ALL_SLOTS]
    /\ result' = [i \in 0..1 |-> ZeroResult]
    /\ pc' = "PARTITION_PROBE"
    /\ UNCHANGED <<arg, ipc, ws, secret, terminating, round, guess, request_buf,
                   response_buf, error, comb, tree_live, heap, nalloc,
                   first_perm, last_perm, processed, processed_last, curr,
                   ap, ac, ret, exitcode>>

\* lines 975-978: info->guess = 0, build_combination_list(info, &list); the
\* nodes are allocated, the first children that came back empty are freed
\* again, and game->comb is still NULL
BuildTree ==
    /\ pc = "TREE_BUILD"
    /\ LET list == build_combination_list(possible)
       IN  /\ arg' = <<list>>
           /\ tree_live' = tree_live + TreeSize(list)
                              + Unattached(possible, list)
    /\ guess' = 0
    /\ pc' = "TREE_STORE"
    /\ UNCHANGED <<ipc, ws, secret, game, sock, terminating, round, request_buf,
                   response_buf, error, result, possible, comb, heap, nalloc,
                   first_perm, last_perm, processed, processed_last, curr,
                   ap, ac, ret, exitcode>>

\* line 980: game->comb = list
StoreTree ==
    /\ pc = "TREE_STORE"
    /\ comb' = StoredTree(arg[1])
    /\ arg' = <<>>
    /\ pc' = "GENERATE"
    /\ UNCHANGED <<ipc, ws, secret, game, sock, terminating, round, guess,
                   request_buf, response_buf, error, result, possible,
                   tree_live, heap, nalloc, first_perm, last_perm, processed,
                   processed_last, curr, ap, ac, ret, exitcode>>

\* lines 983-985: process_combinations(info, list, 0), curr = info->first_perm
GenerateCandidates ==
    /\ pc = "GENERATE"
    /\ LET cs == process_combinations(comb, 0, 0)
       IN  /\ guess' = LastGuess(comb, 0)
           /\ heap' = WithPerms(heap, nalloc, cs)
           /\ nalloc' = nalloc + Len(cs)
           /\ first_perm' = IF cs = <<>> THEN NULL ELSE nalloc + 1
           /\ last_perm' = IF cs = <<>> THEN NULL ELSE nalloc + Len(cs)
           /\ curr' = IF cs = <<>> THEN NULL ELSE nalloc + 1
    /\ pc' = "ROUND_LOOP"
    /\ UNCHANGED <<arg, ipc, ws, secret, game, sock, terminating, round,
                   request_buf, response_buf, error, result, possible, comb,
                   tree_live, processed, processed_last, ap, ac, ret, exitcode>>

\* lines 990-996: info->guess = curr->combination, commit_guess, curr->red
RoundCommit ==
    /\ pc = "ROUND_LOOP"
    /\ IF curr = NULL THEN RoundGuessNull
       ELSE \E err \in ErrorCodes :
        LET cg == commit_guess(heap[curr].combination, <<>>, err)
        IN  /\ Committed(cg)
            /\ IF cg.ret # 0
               THEN /\ heap' = cg.heap
                    /\ Returned(cg.ret)
               ELSE /\ heap' = [cg.heap EXCEPT ![curr].red = cg.res.red]
                    /\ pc' = "UNLINK_PREV"
                    /\ UNCHANGED ret
            /\ UNCHANGED <<first_perm, last_perm, curr, game, sock,
                           terminating, comb, tree_live, exitcode>>
    /\ UNCHANGED <<arg, ipc, ws, secret, result, possible, ap, ac>>

\* the fields a statement of the removal leaves alone
RemovalFrame ==
    UNCHANGED <<arg, ipc, ws, secret, game, sock, terminating, round, guess,
                request_buf, response_buf, error, result, possible, comb,
                tree_live, nalloc, processed, processed_last, ap, ac, ret,
                exitcode>>

\* lines 999-1009
RoundUnlinkPrev ==
    /\ pc = "UNLINK_PREV"
    /\ LET st == UnlinkPrev([heap |-> heap, first_perm |-> first_perm,
                             last_perm |-> last_perm], curr)
       IN  /\ heap' = st.heap
           /\ first_perm' = st.first_perm
           /\ last_perm' = st.last_perm
    /\ pc' = "UNLINK_NEXT"
    /\ UNCHANGED curr
    /\ RemovalFrame

\* lines 1011-1018
RoundUnlinkNext ==
    /\ pc = "UNLINK_NEXT"
    /\ LET st == UnlinkNext([heap |-> heap, first_perm |-> first_perm,
                             last_perm |-> last_perm], curr)
       IN  /\ heap' = st.heap
           /\ first_perm' = st.first_perm
           /\ last_perm' = st.last_perm
    /\ pc' = "FREE_CURR"
    /\ UNCHANGED curr
    /\ RemovalFrame

\* line 1023: free(curr)
RoundFree ==
    /\ pc = "FREE_CURR"
    /\ heap' = HeapFree(heap, {curr})
    /\ pc' = "FIND_NEXT"
    /\ UNCHANGED <<first_perm, last_perm, curr>>
    /\ RemovalFrame

\* lines 1026-1029: curr = find_best_perm(info), bail_out when it is NULL
RoundFind ==
    /\ pc = "FIND_NEXT"
    /\ LET nxt == find_best_perm(heap, first_perm, processed)
       IN  /\ curr' = nxt
           /\ IF nxt = NULL
              THEN BailOutWith(EXIT_FAILURE, heap, first_perm, processed)
              ELSE /\ pc' = "ROUND_LOOP"
                   /\ UNCHANGED <<heap, game, sock, terminating, comb,
                                  tree_live, exitcode>>
    /\ UNCHANGED <<arg, ipc, ws, secret, round, guess, request_buf,
                   response_buf, error, result, possible, nalloc, first_perm,
                   last_perm, processed, processed_last, ap, ac, ret>>

\* SIGINT, SIGQUIT or SIGTERM between any two of the statements above:
\* signal_handler runs free_resources and exits.  With the session
\* allocated and not yet set to 0, free_resources reads connfd, comb,
\* first_perm and processed out of uninitialised memory: the process is
\* killed, or it gets through and exits.
SignalAnywhere ==
    /\ pc \notin {"EXITED", "KILLED"}
    /\ IF game = "UNINITIALISED"
       THEN /\ terminating' = 1
            /\ \/ /\ pc' = "KILLED"
                  /\ UNCHANGED <<game, exitcode>>
               \/ /\ pc' = "EXITED"
                  /\ game' = "NULL"
                  /\ exitcode' = EXIT_SUCCESS
            /\ UNCHANGED <<sock, comb, tree_live, heap>>
       ELSE /\ free_resources
            /\ pc' = "EXITED"
            /\ exitcode' = EXIT_SUCCESS
    /\ UNCHANGED <<arg, ipc, ws, secret, round, guess, request_buf, response_buf, error,
                   result, possible, nalloc, first_perm, last_perm, processed,
                   processed_last, curr, ap, ac, ret>>

NextInterruptible ==
    \/ ConnectFails
    \/ StartGameMalloc
    \/ StartGameInit
    \/ AnalysePartitions
    \/ AnalysePartitionsFault
    \/ AnalyseColorsProbe
    \/ AnalyseColorsExtra
    \/ AnalyseColorsFault
    \/ AnalysePossible
    \/ BuildTree
    \/ StoreTree
    \/ GenerateCandidates
    \/ RoundCommit
    \/ RoundGuessFault
    \/ RoundUnlinkPrev
    \/ RoundUnlinkNext
    \/ RoundFree
    \/ RoundFind
    \/ MainExit
    \/ SignalAnywhere

SpecInterrupt == Init /\ [][NextInterruptible]_vars

(***************************************************************************)
(* Functions of the client applied on their own to arguments drawn from a  *)
(* set: arg holds the arguments of the call                                *)
(***************************************************************************)
\* the client's variables other than pc while no game is played
GameAtRest ==
    /\ secret = 0
    /\ game = "NULL"
    /\ sock = "NONE"
    /\ terminating = 0
    /\ round = 0
    /\ guess = 0
    /\ request_buf = <<0, 0>>
    /\ response_buf = 0
    /\ error = 0
    /\ result = [i \in 0..1 |-> ZeroResult]
    /\ possible = [c \in 0..(COLORS - 1) |-> 0]
    /\ comb = <<>>
    /\ tree_live = 0
    /\ heap = <<>>
    /\ nalloc = 0
    /\ first_perm = NULL
    /\ last_perm = NULL
    /\ processed = NULL
    /\ processed_last = NULL
    /\ curr = NULL
    /\ ap = [i |-> 0, skip |-> 0]
    /\ ac = [i |-> 0, j |-> 0, found |-> 0, total |-> 0,
             last_color_missing |-> <<0, 0>>]
    /\ ret = 0
    /\ exitcode = -1

\* a uint16_t with bit 15 set
WithBit15(c) == (c % Pow2(15)) + Pow2(15)

\* compare_perm_equal_pos(cmb1, cmb2) for two codes, the second one with or
\* without the parity bit it carries in the processed list
CompareInit ==
    /\ pc = "CALL"
    /\ GameAtRest
    /\ ipc = <<>>
    /\ ws = <<>>
    /\ \E c1 \in Secrets, c2 \in Secrets \cup {WithBit15(c) : c \in Secrets} :
          arg = <<c1, c2>>

ComparePerm ==
    /\ pc = "CALL"
    /\ Len(arg) = 2
    /\ ret' = compare_perm_equal_pos(arg[1], arg[2])
    /\ pc' = "RETURNED"
    /\ UNCHANGED <<arg, ipc, ws, secret, game, sock, terminating, round,
                   guess, request_buf, response_buf, error, result, possible,
                   comb, tree_live, heap, nalloc, first_perm, last_perm,
                   processed, processed_last, curr, ap, ac, exitcode>>

SpecCompare == CompareInit /\ [][ComparePerm]_vars

\* generate_request(buffer, &req) for every value a uint16_t can hold
ParityInit ==
    /\ pc = "CALL"
    /\ GameAtRest
    /\ ipc = <<>>
    /\ ws = <<>>
    /\ \E req \in 0..(Pow2(16) - 1) : arg = <<req>>

GenerateRequest ==
    /\ pc = "CALL"
    /\ Len(arg) = 1
    /\ guess' = generate_request(arg[1]).guess
    /\ request_buf' = generate_request(arg[1]).buf
    /\ pc' = "RETURNED"
    /\ UNCHANGED <<arg, ipc, ws, secret, game, sock, terminating, round,
                   response_buf, error, result, possible, comb, tree_live,
                   heap, nalloc, first_perm, last_perm, processed,
                   processed_last, curr, ap, ac, ret, exitcode>>

SpecParity == ParityInit /\ [][GenerateRequest]_vars

\* the enumeration of build_combination_list for one color on its own: the
\* color is the last one (no level below it), arg holds last_combination,
\* mask (already cut to the parent's mask), needed and the parent's mask,
\* comb the chain of self and its siblings built so far
\* the largest needed: possible[i] is a uint8_t and needed its bits above
\* the slots
MaxNeeded == 255 \div Pow2(SLOTS)

CombinationInit ==
    /\ pc = "CALL"
    /\ GameAtRest
    /\ ipc = <<>>
    /\ ws = <<>>
    /\ \E mask \in 1..ALL_SLOTS, p_mask \in 1..ALL_SLOTS, needed \in 0..MaxNeeded :
          /\ BitAnd(mask, p_mask, 8) = mask
          /\ arg = <<StartCombination(needed), mask, needed, p_mask>>

\* lines 767 and 786: combination = compute_combination(combination, mask, needed)
ComputeCombination ==
    /\ pc = "CALL"
    /\ Len(arg) = 4
    /\ ret' = compute_combination(arg[1], arg[2], arg[3])
    /\ pc' = "RETURNED"
    /\ UNCHANGED <<arg, ipc, ws, secret, game, sock, terminating, round,
                   guess, request_buf, response_buf, error, result, possible,
                   comb, tree_live, heap, nalloc, first_perm, last_perm,
                   processed, processed_last, curr, ap, ac, exitcode>>

\* lines 767-769 (self) and 786-808 (a sibling): the combination that came
\* back is not 0, its node joins the chain and the loop asks for the next
AttachNode ==
    /\ pc = "RETURNED"
    /\ Len(arg) = 4
    /\ ret # 0
    /\ LET node == MakeNode(possible, COLORS - 1, arg[4], ret)
       IN  comb' = IF comb = <<>> THEN <<node>>
                   ELSE InsertSibling(comb, node, Len(comb))
    /\ arg' = <<ret, arg[2], arg[3], arg[4]>>
    /\ pc' = "CALL"
    /\ UNCHANGED <<ipc, ws, secret, game, sock, terminating, round,
                   guess, request_buf, response_buf, error, result, possible,
                   tree_live, heap, nalloc, first_perm, last_perm,
                   processed, processed_last, curr, ap, ac, ret, exitcode>>

Enumerate == ComputeCombination \/ AttachNode

SpecCombination == CombinationInit /\ [][Enumerate]_vars

(***************************************************************************)
(* Part 2: chstat/chstat.c, the two programs chstat and readin.            *)
(*                                                                         *)
(* ipc holds the System V objects registered under the directory's key,    *)
(* the shared memory segments and one record per process.  A step of a     *)
(* process is one system call together with the statements that follow it  *)
(* up to the next system call that can block or fail.  An object is named  *)
(* by the identifier it got when it was created; an operation on an        *)
(* identifier that is no longer registered returns -1.                     *)
(***************************************************************************)
READER_F == 1

EOF_F == 2

\* processes of each program, lines on the standard input of a readin
NumChstat == 2

NumReadin == 2

MaxLines == 2

\* objects of each kind created under the key, signals delivered
MaxGen == 2

MaxSignals == 1

\* a process before ipc_init(): the globals cnd, mtx, shm, shared, cleanup
\* (chstat.c:49-61), the lines stdin can still deliver, the argument of
\* ipc_write() (1 a line, 0 NULL), the local ret of ipc_write() and the value
\* of ipc_process()
IpcProc(kind) ==
    [kind |-> kind, pc |-> "INIT_CND", cnd |-> -1, mtx |-> -1, shm |-> -1,
     shared |-> -1, cleanup |-> 0,
     lines |-> IF kind = "readin" THEN MaxLines ELSE 0,
     data |-> 0, i |-> -1, ret |-> -1, eval |-> -1]

\* fgets(buf, MAX_BUF_SIZE, stdin) of process p in state s yields a line or
\* NULL at the end of the input; ipc_write() is entered with what it yields
fgets(s, p) ==
    {[s EXCEPT !.procs[p].data = 0, !.procs[p].ret = -1,
               !.procs[p].pc = "LISTENER_DOWN"]}
    \cup (IF s.procs[p].lines > 0
          THEN {[s EXCEPT !.procs[p].data = 1, !.procs[p].lines = @ - 1,
                          !.procs[p].ret = -1,
                          !.procs[p].pc = "LISTENER_DOWN"]}
          ELSE {})

\* nothing registered under the key; segment n is the one shmget() creates
\* n-th
IpcObjects(procs) ==
    [procs |-> procs,
     cnd |-> -1, write |-> 0, read |-> 0, ncnd |-> 0,
     mtx |-> -1, val |-> 0, nmtx |-> 0,
     shm |-> -1, nshm |-> 0,
     seg |-> [n \in 1..MaxGen |-> [data |-> 0, flag |-> 0]],
     overwritten |-> FALSE, hollow |-> FALSE, signals |-> 0]

\* the semaphore field cnd / the semaphore mtx of process p is registered
CndValid(p) == ipc.procs[p].cnd # -1 /\ ipc.procs[p].cnd = ipc.cnd

MtxValid(p) == ipc.procs[p].mtx # -1 /\ ipc.procs[p].mtx = ipc.mtx

\* shmat(id) finds the segment: registered, or removed and still attached
Attachable(id) ==
    id # -1 /\ (id = ipc.shm \/ \E q \in DOMAIN ipc.procs : ipc.procs[q].shared = id)

\* bail_out(eval, ...) in state s: ipc_shutdown() and exit(eval)
bail_out(s, p, eval) ==
    [s EXCEPT !.procs[p].pc = "SHUTDOWN", !.procs[p].eval = eval]

\* semup(mtx) that leaves the semaphore as it is
semup_lost(s, p) == s

\* semup(mtx) in state s where it cannot fail or its failure is ignored
semup(s, p) ==
    IF MtxValid(p) THEN [s EXCEPT !.val = @ + 1] ELSE s

IpcFrame == UNCHANGED <<arg, ws, game_vars>>

\* the processes of one program are numbered in the order they are started:
\* those of this program with a number up to n have entered ipc_init()
Started(n, kind) ==
    \A q \in 1..n : ipc.procs[q].kind = kind => ipc.procs[q].pc # "INIT_CND"

ipc_init ==
    \E p \in DOMAIN ipc.procs :
    LET me == ipc.procs[p] IN
    /\ IpcFrame
    /\ \/ /\ me.pc = "INIT_CND"
          /\ Started(p - 1, me.kind)
          /\ IF ipc.cnd = -1
             THEN /\ ipc.ncnd < MaxGen
                  /\ ipc' = [ipc EXCEPT !.ncnd = @ + 1, !.cnd = ipc.ncnd + 1,
                                        !.write = 1, !.read = 0,
                                        !.procs[p].cnd = ipc.ncnd + 1,
                                        !.procs[p].pc = "INIT_MTX"]
             ELSE ipc' = [ipc EXCEPT !.procs[p].cnd = ipc.cnd,
                                     !.procs[p].pc = "INIT_MTX"]
       \/ /\ me.pc = "INIT_MTX"
          /\ IF ipc.mtx = -1
             THEN /\ ipc.nmtx < MaxGen
                  /\ ipc' = [ipc EXCEPT !.nmtx = @ + 1, !.mtx = ipc.nmtx + 1,
                                        !.val = 0,
                                        !.procs[p].mtx = ipc.nmtx + 1,
                                        !.procs[p].pc = "INIT_SHM"]
             ELSE ipc' = [ipc EXCEPT !.procs[p].mtx = ipc.mtx,
                                     !.procs[p].pc = "INIT_SHM"]
       \/ /\ me.pc = "INIT_SHM"
          /\ IF ipc.shm = -1
             THEN \* the creator attaches and clears the segment
                  /\ ipc.nshm < MaxGen
                  /\ ipc' = [ipc EXCEPT
                        !.nshm = @ + 1, !.shm = ipc.nshm + 1,
                        !.seg[ipc.nshm + 1] =
                            [data |-> 0,
                             flag |-> IF me.kind = "chstat" THEN READER_F ELSE 0],
                        !.procs[p].shm = ipc.nshm + 1,
                        !.procs[p].shared = ipc.nshm + 1,
                        !.procs[p].pc = "INIT_OPEN"]
             ELSE ipc' = [ipc EXCEPT !.procs[p].shm = ipc.shm,
                                     !.procs[p].pc = "INIT_DOWN"]
       \/ /\ me.pc = "INIT_DOWN"
          /\ IF ~MtxValid(p)
             THEN ipc' = bail_out(ipc, p, EXIT_FAILURE)
             ELSE /\ ipc.val > 0
                  /\ IF Attachable(me.shm)
                     THEN ipc' = [ipc EXCEPT
                            !.val = @ - 1,
                            !.seg[me.shm].flag =
                                IF me.kind = "chstat"
                                THEN BitOr(@, READER_F, 8) ELSE @,
                            !.procs[p].shared = me.shm,
                            !.procs[p].pc = "INIT_UP"]
                     ELSE ipc' = bail_out([ipc EXCEPT !.val = @ - 1], p,
                                          EXIT_FAILURE)
       \/ /\ me.pc \in {"INIT_UP", "INIT_OPEN"}
          /\ IF ~MtxValid(p)
             THEN ipc' = bail_out(ipc, p, EXIT_FAILURE)
             ELSE IF me.kind = "chstat"
             THEN ipc' = [ipc EXCEPT !.val = @ + 1,
                                     !.procs[p].pc = "PROCESS_DOWN"]
             ELSE ipc' \in fgets([ipc EXCEPT !.val = @ + 1], p)

\* readin: ipc_require_listener() at the start of ipc_write()
ipc_require_listener ==
    \E p \in DOMAIN ipc.procs :
    LET me == ipc.procs[p] IN
    /\ IpcFrame
    /\ \/ /\ me.pc = "LISTENER_DOWN"
          /\ IF ~MtxValid(p)
             THEN ipc' = bail_out(ipc, p, EXIT_FAILURE)
             ELSE /\ ipc.val > 0
                  /\ ipc' = [ipc EXCEPT !.val = @ - 1,
                                        !.procs[p].pc = "LISTENER_UP"]
       \/ /\ me.pc = "LISTENER_UP"
          /\ IF BitAnd(ipc.seg[me.shared].flag, READER_F, 8) # 1
             THEN ipc' = bail_out(semup(ipc, p), p, EXIT_SUCCESS)
             ELSE IF ~MtxValid(p)
             THEN ipc' = bail_out(ipc, p, EXIT_FAILURE)
             ELSE ipc' = [ipc EXCEPT !.val = @ + 1,
                                     !.procs[p].pc = "WRITE_DOWN"]

\* readin: ipc_write(data) after ipc_require_listener(), and what main() does
\* with the value returned
ipc_write ==
    \E p \in DOMAIN ipc.procs :
    LET me == ipc.procs[p] IN
    /\ IpcFrame
    /\ \/ /\ me.pc = "WRITE_DOWN"
          /\ IF ~CndValid(p)
             THEN ipc' = bail_out(ipc, p, EXIT_FAILURE)
             ELSE /\ ipc.write > 0
                  /\ ipc' = [ipc EXCEPT !.write = @ - 1,
                                        !.procs[p].pc = "WRITE_MTX"]
       \/ /\ me.pc = "WRITE_MTX"
          /\ IF ~MtxValid(p)
             THEN ipc' = [ipc EXCEPT !.procs[p].pc = "WRITE_UP"]
             ELSE /\ ipc.val > 0
                  /\ ipc' = [ipc EXCEPT !.val = @ - 1,
                                        !.procs[p].pc = "WRITE_DATA"]
       \/ /\ me.pc = "WRITE_DATA"
          /\ ipc' = [semup(ipc, p) EXCEPT
                        !.seg[me.shared] =
                            IF me.data = 0
                            THEN [@ EXCEPT !.flag = BitOr(@, EOF_F, 8)]
                            ELSE [@ EXCEPT !.data = 1],
                        !.overwritten =
                            @ \/ (me.data # 0 /\ ipc.seg[me.shared].data # 0),
                        !.procs[p].ret = IF MtxValid(p) THEN 0 ELSE -1,
                        !.procs[p].pc = "WRITE_UP"]
       \/ /\ me.pc = "WRITE_UP"
          /\ IF ~CndValid(p)
             THEN ipc' = bail_out([ipc EXCEPT !.procs[p].ret = -1], p,
                                  EXIT_FAILURE)
             ELSE IF me.data # 0
             THEN ipc' \in fgets([ipc EXCEPT !.read = @ + 1,
                                             !.procs[p].ret = 0], p)
             ELSE ipc' = [ipc EXCEPT !.read = @ + 1,
                                     !.procs[p].ret = 0,
                                     !.procs[p].shared = -1,
                                     !.procs[p].eval = 0,
                                     !.procs[p].pc = "EXITED"]

\* chstat: ipc_process() and what main() does with the value returned
ipc_process ==
    \E p \in DOMAIN ipc.procs :
    LET me == ipc.procs[p] IN
    /\ IpcFrame
    /\ \/ /\ me.pc = "PROCESS_DOWN"
          /\ IF ~CndValid(p)
             THEN ipc' = bail_out([ipc EXCEPT !.procs[p].i = -1], p,
                                  EXIT_FAILURE)
             ELSE /\ ipc.read > 0
                  /\ ipc' = [ipc EXCEPT !.read = @ - 1,
                                        !.procs[p].i = -1,
                                        !.procs[p].pc = "PROCESS_MTX"]
       \/ /\ me.pc = "PROCESS_MTX"
          /\ IF ~MtxValid(p)
             THEN ipc' = [ipc EXCEPT !.procs[p].pc = "PROCESS_UP"]
             ELSE /\ ipc.val > 0
                  /\ ipc' = [ipc EXCEPT !.val = @ - 1,
                                        !.procs[p].i = 0,
                                        !.procs[p].pc = "PROCESS_DATA"]
       \/ /\ me.pc = "PROCESS_DATA"
          /\ LET sh == ipc.seg[me.shared]
                 count == BitAnd(sh.flag, EOF_F, 8) # 1
             IN ipc' = [semup(ipc, p) EXCEPT
                            !.seg[me.shared].data = IF count THEN 0 ELSE @,
                            !.hollow = @ \/ (sh.data = 0
                                             /\ BitAnd(sh.flag, EOF_F, 8) = 0),
                            !.procs[p].i = IF ~MtxValid(p) THEN -1
                                           ELSE IF count THEN sh.data ELSE 0,
                            !.procs[p].pc = "PROCESS_UP"]
       \/ /\ me.pc = "PROCESS_UP"
          /\ LET c == IF CndValid(p) THEN me.i ELSE -1
                 s == IF CndValid(p) THEN [ipc EXCEPT !.write = @ + 1] ELSE ipc
             IN ipc' = IF c = -1
                       THEN bail_out([s EXCEPT !.procs[p].i = c], p, EXIT_FAILURE)
                       ELSE [s EXCEPT !.procs[p].pc = IF c = 0 THEN "STAT_DOWN"
                                                      ELSE "PROCESS_DOWN"]

\* chstat: print_stat() after the end of the input, then ipc_shutdown()
print_stat ==
    \E p \in DOMAIN ipc.procs :
    LET me == ipc.procs[p] IN
    /\ IpcFrame
    /\ \/ /\ me.pc = "STAT_DOWN"
          /\ IF ~MtxValid(p)
             THEN ipc' = [ipc EXCEPT !.procs[p].pc = "SHUTDOWN",
                                     !.procs[p].eval = 0]
             ELSE /\ ipc.val > 0
                  /\ ipc' = [ipc EXCEPT !.val = @ - 1,
                                        !.procs[p].pc = "STAT_UP"]
       \/ /\ me.pc = "STAT_UP"
          /\ ipc' = [semup(ipc, p) EXCEPT !.procs[p].pc = "SHUTDOWN",
                                          !.procs[p].eval = 0]

\* ipc_shutdown() and the exit that follows it at each of its call sites
ipc_shutdown ==
    \E p \in DOMAIN ipc.procs :
    LET me == ipc.procs[p] IN
    /\ IpcFrame
    /\ \/ /\ me.pc = "SHUTDOWN"
          /\ IF me.cleanup = 1
             THEN ipc' = [ipc EXCEPT !.procs[p].pc = "EXITED"]
             ELSE ipc' = [ipc EXCEPT
                            !.cnd = IF CndValid(p) THEN -1 ELSE @,
                            !.procs[p].cleanup = 1,
                            !.procs[p].shared = -1,
                            !.procs[p].pc = IF me.mtx # -1 THEN "SHUTDOWN_MTX"
                                            ELSE "EXITED"]
       \/ /\ me.pc = "SHUTDOWN_MTX"
          /\ IF ~MtxValid(p)
             THEN ipc' = [ipc EXCEPT !.procs[p].pc = "EXITED"]
             ELSE /\ ipc.val > 0
                  /\ IF me.shm # -1
                     THEN ipc' = [ipc EXCEPT !.val = @ - 1,
                                             !.procs[p].pc = "SHUTDOWN_SHM"]
                     ELSE ipc' = [ipc EXCEPT !.procs[p].pc = "EXITED"]
       \/ /\ me.pc = "SHUTDOWN_SHM"
          /\ ipc' = [ipc EXCEPT !.shm = IF @ = me.shm THEN -1 ELSE @,
                                !.procs[p].pc = "SHUTDOWN_SEM"]
       \/ /\ me.pc = "SHUTDOWN_SEM"
          /\ ipc' = [ipc EXCEPT !.mtx = IF MtxValid(p) THEN -1 ELSE @,
                                !.procs[p].pc = "EXITED"]

\* where SIGINT and SIGQUIT are not blocked by sigprocmask
SignalsOpen ==
    {"INIT_CND", "INIT_MTX", "INIT_SHM", "INIT_DOWN", "INIT_UP", "INIT_OPEN",
     "LISTENER_DOWN", "WRITE_DOWN", "WRITE_MTX", "WRITE_UP",
     "PROCESS_DOWN", "PROCESS_MTX", "PROCESS_UP", "STAT_DOWN"}

signal_handler ==
    \E p \in DOMAIN ipc.procs :
    /\ IpcFrame
    /\ ipc.procs[p].pc \in SignalsOpen
    /\ ipc.signals < MaxSignals
    /\ ipc' = bail_out([ipc EXCEPT !.signals = @ + 1], p, EXIT_SUCCESS)

\* any number of chstat and readin processes started in one directory
IpcInit ==
    /\ pc = "IPC"
    /\ GameAtRest
    /\ arg = <<>>
    /\ ws = <<>>
    /\ ipc = IpcObjects([p \in 1..(NumChstat + NumReadin) |->
                            IpcProc(IF p <= NumChstat THEN "chstat"
                                    ELSE "readin")])

IpcNext ==
    \/ ipc_init
    \/ ipc_require_listener
    \/ ipc_write
    \/ ipc_process
    \/ print_stat
    \/ ipc_shutdown

SpecIpc == IpcInit /\ [][IpcNext]_vars

\* one chstat that has returned from ipc_init() in a directory where nothing
\* was registered (it created cnd, mtx and the segment, set READER_F and
\* upped mtx) and one readin that is started after it
IpcPairInit ==
    /\ pc = "IPC"
    /\ GameAtRest
    /\ arg = <<>>
    /\ ws = <<>>
    /\ ipc = [IpcObjects(<<[IpcProc("chstat") EXCEPT
                               !.pc = "PROCESS_DOWN", !.cnd = 1, !.mtx = 1,
                               !.shm = 1, !.shared = 1],
                           IpcProc("readin")>>)
              EXCEPT !.cnd = 1, !.write = 1, !.read = 0, !.ncnd = 1,
                     !.mtx = 1, !.val = 1, !.nmtx = 1,
                     !.shm = 1, !.nshm = 1,
                     !.seg[1] = [data |-> 0, flag |-> READER_F]]

\* a process that can execute is scheduled: each step of IpcNext is one
\* system call of one process, and a process waiting for a semaphore has no
\* step until the semaphore is positive or removed
SpecIpcPair == IpcPairInit /\ [][IpcNext]_vars /\ WF_vars(IpcNext)

\* the same pair with an interrupt from the keyboard
IpcInterrupted == IpcNext \/ signal_handler

SpecIpcSignal == IpcPairInit /\ [][IpcInterrupted]_vars

(***************************************************************************)
(* Part 3: websh/websh.c and websh/fork_function.c, one call of            *)
(* spawn_worker.  ws holds the place the parent is at, the state of the    *)
(* two workers, the pipe ends each process has open, the bytes in the pipe *)
(* and the bytes the command still has to write.                           *)
(***************************************************************************)
\* bytes the pipe buffers before write blocks, longest output of a command
PipeCapacity == 2

MaxOutput == 3

\* file descriptors of the pipe a process has open
NoEnds == [read |-> FALSE, write |-> FALSE]

BothEnds == [read |-> TRUE, write |-> TRUE]

\* some process has the read end open; some process has the write end open
Readers == ws.parent.read \/ ws.execute.read \/ ws.format.read

Writers == ws.parent.write \/ ws.execute.write \/ ws.format.write

WsFrame == UNCHANGED <<arg, ipc, game_vars>>

\* the parent: open_pipe, fork_function twice, close_pipe, wait_for_child
spawn_worker ==
    /\ WsFrame
    /\ \/ /\ ws.pc = "OPEN_PIPE"
          /\ \/ ws' = [ws EXCEPT !.parent = BothEnds, !.pc = "FORK_EXECUTE"]
             \/ ws' = [ws EXCEPT !.ret = -1, !.pc = "RETURNED"]
       \/ /\ ws.pc = "FORK_EXECUTE"
          /\ \/ ws' = [ws EXCEPT !.c1 = "STARTED", !.execute = ws.parent,
                                 !.pc = "FORK_FORMAT"]
             \/ ws' = [ws EXCEPT !.parent = NoEnds, !.ret = -1,
                                 !.pc = "RETURNED"]
       \/ /\ ws.pc = "FORK_FORMAT"
          /\ \/ ws' = [ws EXCEPT !.c2 = "STARTED", !.format = ws.parent,
                                 !.pc = "CLOSE_PIPE"]
             \/ ws' = [ws EXCEPT !.pc = "WAIT_EXECUTE_ONLY"]
       \/ \* no format worker: waitpid(c1), then close_pipe and return -1
          /\ ws.pc = "WAIT_EXECUTE_ONLY"
          /\ ws.c1 = "EXITED"
          /\ ws' = [ws EXCEPT !.c1 = "REAPED", !.parent = NoEnds,
                              !.ret = -1, !.pc = "RETURNED"]
       \/ /\ ws.pc = "CLOSE_PIPE"
          /\ ws' = [ws EXCEPT !.parent = NoEnds, !.pc = "WAIT_EXECUTE"]
       \/ /\ ws.pc = "WAIT_EXECUTE"
          /\ ws.c1 = "EXITED"
          /\ ws' = [ws EXCEPT !.c1 = "REAPED", !.pc = "WAIT_FORMAT"]
       \/ /\ ws.pc = "WAIT_FORMAT"
          /\ ws.c2 = "EXITED"
          /\ ws' = [ws EXCEPT !.c2 = "REAPED", !.ret = 0, !.pc = "RETURNED"]

\* the execute worker: close the read end, redirect stdout, then sh -c cmd
\* writes its output to the pipe and exits
execute ==
    /\ WsFrame
    /\ \/ /\ ws.c1 = "STARTED"
          /\ \/ ws' = [ws EXCEPT !.execute.read = FALSE, !.c1 = "RUNNING"]
             \/ ws' = [ws EXCEPT !.execute = NoEnds, !.c1 = "EXITED"]
       \/ /\ ws.c1 = "RUNNING"
          /\ ws.out > 0
          /\ IF ~Readers
             THEN \* SIGPIPE
                  ws' = [ws EXCEPT !.execute = NoEnds, !.c1 = "EXITED"]
             ELSE /\ ws.pipe < PipeCapacity
                  /\ ws' = [ws EXCEPT !.pipe = @ + 1, !.out = @ - 1]
       \/ /\ ws.c1 = "RUNNING"
          /\ ws.out = 0
          /\ ws' = [ws EXCEPT !.execute = NoEnds, !.c1 = "EXITED"]

\* the format worker: close the write end, redirect stdin, read to the end
format ==
    /\ WsFrame
    /\ \/ /\ ws.c2 = "STARTED"
          /\ \/ ws' = [ws EXCEPT !.format.write = FALSE, !.c2 = "READING"]
             \/ ws' = [ws EXCEPT !.format = NoEnds, !.c2 = "EXITED"]
       \/ /\ ws.c2 = "READING"
          /\ ws.pipe > 0
          /\ ws' = [ws EXCEPT !.pipe = @ - 1]
       \/ /\ ws.c2 = "READING"
          /\ ws.pipe = 0
          /\ ~Writers
          /\ ws' = [ws EXCEPT !.format = NoEnds, !.c2 = "EXITED"]

\* spawn_worker(cmd) is called for a command that writes up to MaxOutput
\* bytes to its standard output and exits
WsInit ==
    /\ pc = "WEBSH"
    /\ GameAtRest
    /\ arg = <<>>
    /\ ipc = <<>>
    /\ \E n \in 0..MaxOutput :
          ws = [pc |-> "OPEN_PIPE", ret |-> 0, c1 |-> "NONE", c2 |-> "NONE",
                parent |-> NoEnds, execute |-> NoEnds, format |-> NoEnds,
                pipe |-> 0, out |-> n]

WsNext == spawn_worker \/ execute \/ format

\* a process that is not blocked in write, read or waitpid goes on
SpecWebsh == WsInit /\ [][WsNext]_vars /\ WF_vars(WsNext)

(***************************************************************************)
(* Properties                                                              *)
(***************************************************************************)
\* number of slots in which two codes hold the same color
ExactMatches(c1, c2) ==
    Cardinality({i \in 0..(SLOTS - 1) : SlotColor(c1, i) = SlotColor(c2, i)})

\* the addresses of the processed list and of the candidate list, in order
ProcessedSeq == Chain(heap, processed)

CandidateSeq == Chain(heap, first_perm)

\* code agrees with every processed guess in exactly as many slots as that
\* guess was recorded to have exact matches
Consistent(code) ==
    \A x \in DOMAIN ProcessedSeq :
        ExactMatches(code, heap[ProcessedSeq[x]].combination)
            = heap[ProcessedSeq[x]].red

\* the occurrence count a possible[] entry holds
Count(p) == p \div Pow2(SLOTS)

\* no candidate has been tested (and freed) yet
FirstRound == Cardinality(DOMAIN heap) = nalloc

\* C1: a candidate returned by find_best_perm agrees with every processed
\* code in exactly that entry's recorded number of exact matches, whatever
\* the two lists hold.
C1_ReturnedIsConsistent ==
    (pc = "SELECTED" /\ curr # NULL) => Consistent(heap[curr].combination)

\* a later candidate is returned, after checking it against two entries
C1_Witness ==
    /\ pc = "SELECTED"
    /\ curr # NULL
    /\ curr # first_perm
    /\ Len(ProcessedSeq) = 2

\* C4: find_best_perm returns the first candidate, in list order, that is
\* consistent with every processed guess, and NULL only when none is.
C4_ReturnsFirstConsistent ==
    pc = "SELECTED" =>
        LET cs == CandidateSeq
            ok(x) == Consistent(heap[cs[x]].combination)
        IN  /\ curr = NULL => \A x \in DOMAIN cs : ~ok(x)
            /\ curr # NULL =>
                 \E x \in DOMAIN cs :
                    /\ cs[x] = curr
                    /\ ok(x)
                    /\ \A y \in 1..(x - 1) : ~ok(y)

\* the third candidate is returned, the two before it being inconsistent
C4_Witness ==
    /\ pc = "SELECTED"
    /\ Len(CandidateSeq) = 3
    /\ curr = last_perm
    /\ processed # NULL

\* C2: against an arbiter that scores every guess truthfully, without
\* protocol or transport errors, the client eventually wins.
C2_EventuallyWon == <>(pc = "WON")

\* a game won in the round loop, after all nine opening guesses
C2_Witness == pc = "WON" /\ round > 9 /\ comb # <<>>

\* C3: against a truthful arbiter the secret stays in the candidate list and
\* is consistent with every processed guess, so the list never runs out
\* and the internal-fault exit is never taken.
C3_SecretStaysCandidate ==
    /\ pc = "ROUND_LOOP" =>
         /\ curr # NULL
         /\ first_perm # NULL
         /\ \E x \in DOMAIN CandidateSeq :
                heap[CandidateSeq[x]].combination = secret
         /\ Consistent(secret)
    /\ pc # "KILLED"
    /\ pc = "EXITED" => exitcode = EXIT_SUCCESS

\* a later round: candidates have been tested and removed, more remain
C3_Witness ==
    /\ pc = "ROUND_LOOP"
    /\ ~FirstRound
    /\ Len(CandidateSeq) >= 2
    /\ heap[curr].combination # secret

\* C5 as stated: every guess of the round loop, the first included, is
\* consistent with the processed list.
C5_EveryGuessConsistent ==
    (pc = "ROUND_LOOP" /\ curr # NULL) => Consistent(heap[curr].combination)

\* C5: the first guess of the round loop is the head of the candidate list,
\* taken without the selector; every later guess is the first candidate
\* consistent with all processed guesses.
C5_LaterGuessesConsistent ==
    (pc = "ROUND_LOOP" /\ curr # NULL) =>
        IF FirstRound THEN curr = first_perm
        ELSE LET cs == CandidateSeq
             IN  \E x \in DOMAIN cs :
                    /\ cs[x] = curr
                    /\ Consistent(heap[curr].combination)
                    /\ \A y \in 1..(x - 1) :
                          ~Consistent(heap[cs[y]].combination)

\* a later round in which the selector has passed over the list head
C5_Witness ==
    /\ pc = "ROUND_LOOP"
    /\ ~FirstRound
    /\ curr # NULL
    /\ curr # first_perm

\* C6: when the Color Counter is done the occurrence counts of the eight
\* colors add up to the number of slots.
C6_CountsSumToSlots ==
    pc = "POSITION_REFINE" =>
        SumTo([c \in 0..(COLORS - 1) |-> Count(possible[c])], COLORS - 1)
            = SLOTS

\* the Color Counter done after the extra probe of the last color
C6_Witness == pc = "POSITION_REFINE" /\ round = 9

\* C7: when the Color Counter is done every color's occurrence count is
\* the number of times the color occurs in the secret.
C7_CountsMatchSecret ==
    pc = "POSITION_REFINE" =>
        \A c \in 0..(COLORS - 1) : Count(possible[c]) = CountColor(secret, c)

\* both last colors were left open and both occur in the secret
C7_Witness ==
    /\ pc = "POSITION_REFINE"
    /\ Count(possible[3]) > 0
    /\ Count(possible[7]) > 0
    /\ ac.last_color_missing = <<1, 1>>

\* C8 as stated: after the Color Counter and after the Position Refiner a
\* color whose occurrence count is 0 has an all-zero possible entry.
C8_AbsentColorEntryZero ==
    pc \in {"POSITION_REFINE", "TREE_BUILD"} =>
        \A c \in 0..(COLORS - 1) : Count(possible[c]) = 0 => possible[c] = 0

\* the extra probe of color 7 found none: its entry keeps all five slots
C8_Witness ==
    /\ pc = "POSITION_REFINE"
    /\ round = 9
    /\ Count(possible[COLORS - 1]) = 0
    /\ possible[COLORS - 1] = ALL_SLOTS

\* C9: the Color Counter sends at most 7 guesses, and at most 9 guesses
\* are sent before the round loop.
C9_OpeningGuessBound ==
    pc \in {"PARTITION_PROBE", "COLOR_PROBE", "POSITION_REFINE", "TREE_BUILD"}
        => /\ round <= 9
           /\ round - ap.i <= 7

\* two partition probes and seven color probes were sent
C9_Witness == pc = "POSITION_REFINE" /\ ap.i = 2 /\ round = 9

\* C10: when a partition probe returns total 5 without winning, the four
\* possible entries of the other partition are zero and its result is
\* {0, 0, 0} before the Color Counter sends its first probe.
C10_TotalFiveClearsComplement ==
    \A i \in 0..1 :
        (/\ pc = "COLOR_PROBE"
         /\ round = ap.i
         /\ ap.i = i + 1
         /\ TOTAL(response_buf) = SLOTS)
        => LET j == (i + 1) % 2
           IN  /\ \A c \in (4 * j)..(4 * j + 3) : possible[c] = 0
               /\ result[j].red = 0
               /\ result[j].white = 0
               /\ result[j].total = 0

\* the first probe held all five colors of the secret, some misplaced
C10_Witness ==
    /\ pc = "COLOR_PROBE"
    /\ round = 1
    /\ ap.i = 1
    /\ TOTAL(response_buf) = SLOTS
    /\ RED(response_buf) < SLOTS

\* C11: when a partition probe returns total 0, the other partition's
\* result is forced to red 1 and total 5 and the four possible entries of
\* the probed partition are zero; the second partition is probed only when
\* the first probe did not return total 0.
C11_TotalZeroForcesComplement ==
    /\ \A i \in 0..1 :
        (/\ pc = "COLOR_PROBE"
         /\ round = ap.i
         /\ ap.i = i + 1
         /\ TOTAL(response_buf) = 0)
        => LET j == (i + 1) % 2
           IN  /\ result[j].red = 1
               /\ result[j].total = SLOTS
               /\ \A c \in (4 * i)..(4 * i + 3) : possible[c] = 0
    /\ (pc = "PARTITION_PROBE" /\ ap.i = 1) => TOTAL(response_buf) # 0

\* the first probe found none of its colors: the Color Counter is entered
\* after one guess
C11_Witness ==
    /\ pc = "COLOR_PROBE"
    /\ round = 1
    /\ ap.i = 1
    /\ TOTAL(response_buf) = 0
    /\ result[1].total = SLOTS

\* C12: once an answer carries a non-zero error code the game is in
\* PROTOCOL_ERROR (or has exited from there) with start_game's return value
\* carrying that code, and no further guess is sent; a parity error on
\* round 1 ends the game after one guess.
C12_ErrorEndsGame ==
    /\ [](round > 0 /\ RESPONSE_ERROR(response_buf) # 0 =>
            /\ pc \in {"PROTOCOL_ERROR", "EXITED"}
            /\ error = RESPONSE_ERROR(response_buf)
            /\ ret = GAME_ERROR_BIT + RESPONSE_ERROR(response_buf))
    /\ [][RESPONSE_ERROR(response_buf) # 0 =>
            /\ round' = round
            /\ request_buf' = request_buf
            /\ pc' = "EXITED"]_vars

\* the answer to the first guess carried the parity error
C12_Witness ==
    /\ pc = "PROTOCOL_ERROR"
    /\ round = 1
    /\ RESPONSE_ERROR(response_buf) = ERROR_PARITY
    /\ ret = GAME_ERROR_BIT + ERROR_PARITY

\* C13: with the secret [beige, beige, darkblue, green, orange] and a
\* truthful arbiter the game reaches WON with a round count of at most 8.
C13_ScenarioWonWithinEight ==
    secret = Code(0, 0, 1, 2, 3) => <>(pc = "WON" /\ round <= 8)

\* the first partition probe is the secret itself: won in round 1
C13_Witness ==
    /\ secret = Code(0, 0, 1, 2, 3)
    /\ pc = "WON"
    /\ round = 1
    /\ ret = 1

\* the slots a position mask holds
MaskSlots(m) == {b \in 0..(SLOTS - 1) : (m \div Pow2(b)) % 2 = 1}

\* the colors with a non-zero possible entry
KnownColors == {c \in 0..(COLORS - 1) : possible[c] # 0}

\* C14: for two colors with occurrence counts 2 and 3 and fully free masks
\* the tree has exactly 10 siblings for the first color with distinct
\* masks, each with exactly one child for the second color whose mask is
\* the complement of its parent's, and exactly 10 candidates are generated.
C14_TwoColorsTenCandidates ==
    (/\ pc = "ROUND_LOOP"
     /\ Cardinality(KnownColors) = 2
     /\ {Count(possible[c]) : c \in KnownColors} = {2, 3}
     /\ \A c \in KnownColors : possible[c] % Pow2(SLOTS) = ALL_SLOTS)
    => LET c1 == CHOOSE c \in KnownColors : \A d \in KnownColors : c <= d
           c2 == CHOOSE c \in KnownColors : c # c1
       IN  /\ Len(comb) = 10
           /\ Cardinality({comb[x].combination : x \in DOMAIN comb}) = 10
           /\ \A x \in DOMAIN comb :
                /\ comb[x].color = c1
                /\ Cardinality(MaskSlots(comb[x].combination))
                      = Count(possible[c1])
                /\ Len(comb[x].first_child) = 1
                /\ comb[x].first_child[1].color = c2
                /\ comb[x].first_child[1].first_child = <<>>
                /\ MaskSlots(comb[x].first_child[1].combination)
                      = (0..(SLOTS - 1)) \ MaskSlots(comb[x].combination)
           /\ Len(CandidateSeq) = 10
           /\ Cardinality({heap[CandidateSeq[x]].combination :
                              x \in DOMAIN CandidateSeq}) = 10

\* beige twice and white three times, tree and candidates built
C14_Witness ==
    /\ pc = "ROUND_LOOP"
    /\ possible = TwoColorPossible(0, COLORS - 1, 2)
    /\ Len(comb) = 10
    /\ Len(CandidateSeq) = 10

\* C15: once the process has exited, every combination-tree node, every
\* candidate and every processed-guess record allocated during the game has
\* been released.
C15_AllReleasedAtExit ==
    pc = "EXITED" => DOMAIN heap = {} /\ tree_live = 0

\* a game that ran to its end, both lists freed and the reachable tree
\* freed, with tree nodes that were never linked still allocated
C15_Witness ==
    /\ pc = "EXITED"
    /\ exitcode = ExitStatus(ret)
    /\ round > 0
    /\ comb = <<>>
    /\ DOMAIN heap = {}
    /\ tree_live > 0

\* C16: a second call of free_resources right after the first frees no
\* tree node, no candidate, no processed record and not the game, and
\* closes no descriptor.
C16_SecondReleaseDoesNothing ==
    [][pc = "RELEASED" =>
          UNCHANGED <<heap, tree_live, comb, sock, game, terminating>>]_vars

\* released twice after candidates and processed records had been
\* allocated and the socket opened
C16_Witness ==
    /\ pc = "RELEASED_TWICE"
    /\ nalloc > 0
    /\ first_perm # NULL
    /\ processed # NULL
    /\ DOMAIN heap = {}
    /\ sock = "CLOSED"
    /\ game = "NULL"

\* a step in which free_resources does its work
ReleaseStep == terminating = 0 /\ terminating' = 1

\* both lists hang together: every pointer leads to an allocated node, no
\* node is in a list twice or in both lists
ListsSound ==
    /\ first_perm \in DOMAIN heap \cup {NULL}
    /\ processed \in DOMAIN heap \cup {NULL}
    /\ \A a \in DOMAIN heap : heap[a].next \in DOMAIN heap \cup {NULL}
    /\ Cardinality(SeqToSet(CandidateSeq)) = Len(CandidateSeq)
    /\ Cardinality(SeqToSet(ProcessedSeq)) = Len(ProcessedSeq)
    /\ SeqToSet(CandidateSeq) \cap SeqToSet(ProcessedSeq) = {}

\* C17: free_resources called at any boundary of the game, from before the
\* session exists to after any round, finds sound lists and leaves no
\* candidate, no processed record, no tree node, no game record and no
\* open socket behind.
C17_ReleaseAtAnyBoundary ==
    [][ReleaseStep =>
          /\ game = "NULL" => UNCHANGED <<heap, tree_live, comb, sock, game>>
          /\ game # "NULL" => ListsSound
          /\ DOMAIN heap' = {}
          /\ tree_live' = 0
          /\ comb' = <<>>
          /\ sock' \in {"NONE", "CLOSED"}
          /\ game' = "NULL"]_vars

\* a signal between the tree build and the first guess of the round loop:
\* the handler has released the lists and the linked tree, unlinked tree
\* nodes stay allocated
C17_Witness ==
    /\ pc = "EXITED"
    /\ exitcode = EXIT_SUCCESS
    /\ ret = 0
    /\ terminating = 1
    /\ game = "NULL"
    /\ sock = "CLOSED"
    /\ processed_last # NULL
    /\ first_perm # NULL
    /\ DOMAIN heap = {}
    /\ tree_live > 0

\* C18 as stated: when the first guess of the round loop is about to be
\* submitted no tree node is allocated any more.
C18_TreeFreedBeforeFirstGuess ==
    (pc = "ROUND_LOOP" /\ FirstRound) => comb = <<>> /\ tree_live = 0

\* C18: the tree built by analyse_combinations is allocated and linked
\* under game->comb in every state of the round loop, and no step after
\* the tree build changes it except free_resources, which frees the nodes
\* linked in the tree.
C18_TreeKeptUntilRelease ==
    /\ [](pc = "ROUND_LOOP" => comb # <<>> /\ tree_live >= TreeSize(comb))
    /\ [][IF ReleaseStep /\ game # "NULL"
          THEN comb' = <<>> /\ tree_live' = tree_live - TreeSize(comb)
          ELSE pc # "TREE_BUILD" => UNCHANGED <<comb, tree_live>>]_vars

\* candidates have been tested and removed, the whole tree is still there
C18_Witness ==
    /\ pc = "ROUND_LOOP"
    /\ ~FirstRound
    /\ comb # <<>>
    /\ tree_live = TreeSize(comb)
    /\ TreeSize(comb) > 1

\* a round of the round loop whose answer arrived: curr was submitted
RoundAnswered ==
    /\ pc = "ROUND_LOOP"
    /\ curr # NULL
    /\ round' # round
    /\ pc' # "EXITED"

\* the code of a list node, without the parity bit
NodeCode(h, a) == h[a].combination % Pow2(SLOTS * COLOR_WIDTH)

\* the last node of the processed list after the round holds curr's code
RecordedAfterRound ==
    /\ processed_last' \in DOMAIN heap'
    /\ processed_last' \in SeqToSet(Chain(heap', processed'))
    /\ heap'[processed_last'].next = NULL
    /\ NodeCode(heap', processed_last') = NodeCode(heap, curr)

\* no node of the candidate list after the round holds curr's code
RemovedAfterRound ==
    /\ curr \notin DOMAIN heap'
    /\ \A a \in SeqToSet(Chain(heap', first_perm')) :
          NodeCode(heap', a) # NodeCode(heap, curr)

\* C19 as stated: after every answered round of the round loop, whatever
\* the answer, the submitted code is recorded in the processed list and is
\* no longer in the candidate list.
C19_SubmittedMovedToProcessed ==
    [][RoundAnswered => RecordedAfterRound /\ RemovedAfterRound]_vars

\* C19: after every answered round of the round loop the submitted code is
\* recorded in the processed list; it is removed from the candidate list
\* when the answer is neither a win nor an error, and stays in the
\* candidate list, the list untouched, when the answer is a win or an error.
C19_RecordedAndRemovedUnlessReturned ==
    [][RoundAnswered =>
          /\ RecordedAfterRound
          /\ pc' = "ROUND_LOOP" => RemovedAfterRound
          /\ pc' # "ROUND_LOOP" =>
                /\ pc' \in {"WON", "PROTOCOL_ERROR"}
                /\ ret' # 0
                /\ curr' = curr
                /\ Chain(heap', first_perm') = CandidateSeq
                /\ curr \in SeqToSet(CandidateSeq)
                /\ heap'[curr] = heap[curr]]_vars

\* the winning round of the round loop: the secret is the last processed
\* record and still a node of the candidate list
C19_Witness ==
    /\ pc = "WON"
    /\ curr # NULL
    /\ curr \in SeqToSet(CandidateSeq)
    /\ NodeCode(heap, curr) = secret
    /\ NodeCode(heap, processed_last) = secret
    /\ ~FirstRound

\* the phases of start_game in the order of its calls
PhaseOrder ==
    <<"PARTITION_PROBE", "COLOR_PROBE", "POSITION_REFINE", "TREE_BUILD",
      "ROUND_LOOP">>

PhaseRank(p) == CHOOSE k \in DOMAIN PhaseOrder : PhaseOrder[k] = p

Phases == SeqToSet(PhaseOrder)

Entries(h, a) ==
    LET c == Chain(h, a)
    IN  [x \in DOMAIN c |-> <<c[x], h[c[x]].combination, h[c[x]].red>>]

\* C21: while the game record exists the processed list is as long as the
\* round counter; a step that is not the teardown leaves the entries it
\* finds as they are, and appends one entry exactly when the round counter
\* goes up: the guess sent and the exact-match count of the answer, at the
\* tail.
C21_ProcessedAppendOnly ==
    /\ [](game # "NULL" => Len(ProcessedSeq) = round)
    /\ [][~ReleaseStep =>
            LET old == Entries(heap, processed)
                new == Entries(heap', processed')
            IN  /\ Len(new) = Len(old) + (IF round' = round THEN 0 ELSE 1)
                /\ round' \in {round, round + 1}
                /\ SubSeq(new, 1, Len(old)) = old
                /\ round' # round =>
                      /\ new[Len(new)][1] = processed_last'
                      /\ new[Len(new)][2] = guess'
                      /\ new[Len(new)][3] = RED(response_buf')
                      /\ Received(request_buf') = NodeCode(heap', processed_last')
                      /\ heap'[processed_last'].next = NULL]_vars

\* probes of both partitions, color probes and round-loop guesses are on
\* the list
C21_Witness ==
    /\ pc = "ROUND_LOOP"
    /\ ~FirstRound
    /\ Len(ProcessedSeq) = round
    /\ round > 7

\* C22: compare_perm_equal_pos(c1, c2) lies in 0..5, is 5 when c1 = c2, and
\* is the number of slots 0..4 in which the two codes hold the same color.
C22_ComparePermCountsEqualSlots ==
    pc = "RETURNED" =>
        /\ ret \in 0..SLOTS
        /\ arg[1] = arg[2] => ret = SLOTS
        /\ ret = Cardinality({i \in 0..(SLOTS - 1) :
                                 SlotColor(arg[1], i) = SlotColor(arg[2], i)})

\* two different codes that agree in exactly three slots, the second one
\* carrying a parity bit
C22_Witness ==
    /\ pc = "RETURNED"
    /\ arg[1] # arg[2]
    /\ arg[2] >= Pow2(15)
    /\ ret = 3

\* bit b of a value
BitOf(v, b) == (v \div Pow2(b)) % 2

\* C23: after compute_parity the XOR of all 16 bits is 0 and bits 0-14 are
\* the ones given; the value does not depend on bit 15 of the value given,
\* so computing the parity again leaves it as it is.
C23_ParityEvenOverSixteenBits ==
    pc = "RETURNED" =>
        /\ guess \in 0..(Pow2(16) - 1)
        /\ Cardinality({b \in 0..15 : BitOf(guess, b) = 1}) % 2 = 0
        /\ \A b \in 0..14 : BitOf(guess, b) = BitOf(arg[1], b)
        /\ compute_parity(WithBit15(arg[1])) = guess
        /\ compute_parity(arg[1] % Pow2(15)) = guess
        /\ compute_parity(guess) = guess

\* a value given with bit 15 set whose parity bit comes out clear
C23_Witness ==
    /\ pc = "RETURNED"
    /\ arg[1] >= Pow2(15)
    /\ guess < Pow2(15)
    /\ guess > 0

\* the colors, slot 0 first, of the code the phase at pc is about to send
Intended ==
    IF pc = "PARTITION_PROBE" THEN partitions[ap.i]
    ELSE IF pc = "COLOR_PROBE"
    THEN LET k == IF ac.i < 2 THEN 4 * ac.i + ac.j ELSE COLORS - 1
         IN  [i \in 1..SLOTS |-> k]
    ELSE [i \in 1..SLOTS |-> SlotColor(heap[curr].combination, i - 1)]

\* C24: every guess of a partition probe, a color probe or the round loop
\* goes out as 2 bytes, low byte first, of a 16-bit value whose bits
\* 3i..3i+2 hold the color of slot i (0..4) and whose bit 15 is the XOR of
\* bits 0-14.
C24_RequestWireFormat ==
    [][(round' # round /\ pc \in Phases /\ (pc = "ROUND_LOOP" => curr # NULL)) =>
          LET v == request_buf'[1] + 256 * request_buf'[2]
          IN  /\ Len(request_buf') = 2
              /\ request_buf'[1] \in 0..255
              /\ request_buf'[2] \in 0..255
              /\ request_buf'[1] = guess' % 256
              /\ request_buf'[2] = guess' \div 256
              /\ \A i \in 0..(SLOTS - 1) :
                    BitOf(v, 3 * i) + 2 * BitOf(v, 3 * i + 1)
                        + 4 * BitOf(v, 3 * i + 2) = Intended[i + 1]
              /\ BitOf(v, 15)
                    = Cardinality({b \in 0..14 : BitOf(v, b) = 1}) % 2]_vars

\* guesses of all three kinds have gone out, the last one with the parity
\* bit set and a low byte greater than the high byte without the parity bit
C24_Witness ==
    /\ pc = "ROUND_LOOP"
    /\ ~FirstRound
    /\ request_buf[2] >= 128
    /\ request_buf[1] > request_buf[2] - 128
    /\ request_buf[1] = guess % 256

\* red, white and total of a result are each at most SLOTS
ResultBounded(r) == r.red <= SLOTS /\ r.white <= SLOTS /\ r.total <= SLOTS

\* C25 as stated: both partition results held in the session satisfy
\* total = red + white with red, white and total at most 5, in every state.
C25_ResultsAddUp ==
    \A i \in 0..1 :
        ResultBounded(result[i]) /\ result[i].total = result[i].red + result[i].white

\* C25: both partition results held in the session have red, white and
\* total at most 5; total = red + white holds for each of them except for
\* the result forced when the other partition's probe returned total 0,
\* which holds red = 1, white = 0, total = 5.
C25_ResultsAddUpUnlessForced ==
    \A i \in 0..1 :
        /\ ResultBounded(result[i])
        /\ \/ result[i].total = result[i].red + result[i].white
           \/ /\ result[1 - i].total = 0
              /\ result[i].red = 1
              /\ result[i].white = 0
              /\ result[i].total = SLOTS

\* the first probe returned total 0, the second partition's result is the
\* forced one and the color probes are under way
C25_Witness ==
    /\ pc = "COLOR_PROBE"
    /\ round > 1
    /\ result[0].total = 0
    /\ result[1].total = SLOTS
    /\ result[1].red = 1
    /\ result[1].white = 0

\* a rule of the Position Refiner has changed the mask of a color the
\* secret holds
MaskRefined ==
    \E s \in 0..(SLOTS - 1) :
        possible[SlotColor(secret, s)] % Pow2(SLOTS) # ALL_SLOTS

\* C29: once the Position Refiner has run against a truthful arbiter, for
\* every slot s the position mask of the color the secret holds at s
\* contains s.
C29_SecretPositionsKept ==
    pc \in {"TREE_BUILD", "ROUND_LOOP"} =>
        \A s \in 0..(SLOTS - 1) :
            BitOf(possible[SlotColor(secret, s)], s) = 1

\* the second rule has collapsed the masks of one partition's colors, the
\* first rule has cleared the probed slots of the other partition's colors
C29_Witness ==
    /\ pc = "TREE_BUILD"
    /\ MaskRefined
    /\ \E i \in 0..1 :
          /\ result[i].red > 0
          /\ result[i].red = result[i].real_hits
          /\ result[1 - i].red = 0
          /\ result[1 - i].total > 0

\* the root-to-leaf paths of a tree: each a sequence of <<color,
\* combination>>, a leaf being a node without first_child
RECURSIVE Paths(_)
Paths(chain) ==
    IF chain = <<>> THEN {}
    ELSE LET n == chain[1]
             e == <<n.color, n.combination>>
         IN  (IF n.first_child = <<>> THEN {<<e>>}
              ELSE {<<e>> \o q : q \in Paths(n.first_child)})
             \cup Paths(Tail(chain))

\* no slot is in two combinations of the path
PathDisjoint(q) ==
    \A x, y \in DOMAIN q :
        x # y => MaskSlots(q[x][2]) \cap MaskSlots(q[y][2]) = {}

\* the combinations of the path cover all slots
PathFull(q) == UNION {MaskSlots(q[x][2]) : x \in DOMAIN q} = 0..(SLOTS - 1)

\* the code a full path assigns: slot s holds the color whose combination
\* contains s
PathCode(q) ==
    LET ColorAt(s) == q[CHOOSE x \in DOMAIN q : s \in MaskSlots(q[x][2])][1]
        RECURSIVE Pack(_)
        Pack(s) == IF s >= SLOTS THEN 0
                   ELSE ColorAt(s) * Pow2(COLOR_WIDTH * s) + Pack(s + 1)
    IN  Pack(0)

\* C30 as stated: in the built tree the combinations along every
\* root-to-leaf path are pairwise disjoint and together cover all 5 slots.
C30_EveryPathFull ==
    pc = "ROUND_LOOP" => \A q \in Paths(comb) : PathDisjoint(q) /\ PathFull(q)

\* C30: in the built tree the combinations along every root-to-leaf path
\* are pairwise disjoint; the paths that cover all 5 slots are exactly the
\* ones the candidates are generated from, and a path that does not cover
\* them (its last node's next level yielded no combination) stays in the
\* tree and yields no candidate.
C30_PathsDisjointFullOnesAreCandidates ==
    pc = "ROUND_LOOP" =>
        /\ \A q \in Paths(comb) : PathDisjoint(q)
        /\ FirstRound =>
              /\ {NodeCode(heap, a) : a \in SeqToSet(CandidateSeq)}
                    = {PathCode(q) : q \in {r \in Paths(comb) : PathFull(r)}}
              /\ Len(CandidateSeq)
                    = Cardinality({r \in Paths(comb) : PathFull(r)})

\* a tree with full paths over at least two colors and with a dead-end
\* path, before the first guess of the round loop
C30_Witness ==
    /\ pc = "ROUND_LOOP"
    /\ FirstRound
    /\ \E q \in Paths(comb) : PathFull(q) /\ Len(q) >= 2
    /\ \E q \in Paths(comb) : ~PathFull(q) /\ q[Len(q)][2] # 0


(***************************************************************************)
(* chstat / readin                                                         *)
(***************************************************************************)
\* the processes of each program
Chstats == {p \in DOMAIN ipc.procs : ipc.procs[p].kind = "chstat"}

Readins == {p \in DOMAIN ipc.procs : ipc.procs[p].kind = "readin"}

\* a readin is in ipc_write(NULL): it has set EOF_F in its segment and is
\* about to signal the read queue
EofSignalled ==
    \E p \in Readins :
        /\ ipc.procs[p].data = 0
        /\ ipc.procs[p].pc = "WRITE_UP"
        /\ ipc.procs[p].shared # -1
        /\ BitAnd(ipc.seg[ipc.procs[p].shared].flag, EOF_F, 8) = EOF_F

\* nothing is registered under the key any more
IpcRemoved == ipc.cnd = -1 /\ ipc.mtx = -1 /\ ipc.shm = -1

\* C26: in chstat/readin, writes and reads of the shared buffer strictly
\* alternate for any number of readin and chstat processes: no line is
\* written over a line that has not been counted, and no ipc_process call
\* consumes a buffer that no ipc_write call has filled or marked with EOF.
C26_WritesAndReadsAlternate == ~ipc.overwritten /\ ~ipc.hollow

\* a readin has written a line over the line it wrote before, which no
\* chstat has counted, while both chstat processes are still running
C26_Witness ==
    /\ ipc.overwritten
    /\ \E p \in Readins : ipc.procs[p].pc = "WRITE_UP" /\ ipc.procs[p].lines = 0
    /\ \E p \in Chstats : ipc.procs[p].pc = "PROCESS_DOWN"

\* C27: with one chstat registered as listener and one readin, under fair
\* scheduling, once readin has signalled EOF chstat eventually returns from
\* ipc_process with 0, prints the statistics and terminates after removing
\* the IPC resources, and neither process stays blocked on a semaphore.
C27_EofEndsBothProcesses ==
    /\ EofSignalled ~> (\E p \in Chstats : /\ ipc.procs[p].pc = "STAT_UP"
                                           /\ ipc.procs[p].i = 0)
    /\ EofSignalled ~> (/\ IpcRemoved
                        /\ \A p \in DOMAIN ipc.procs :
                              /\ ipc.procs[p].pc = "EXITED"
                              /\ ipc.procs[p].eval = 0)

\* readin has sent every line and EOF and has exited, chstat has exited
\* after ipc_process returned 0, and the key is free again
C27_Witness ==
    /\ \E n \in 1..MaxGen : BitAnd(ipc.seg[n].flag, EOF_F, 8) = EOF_F
    /\ IpcRemoved
    /\ \A p \in Readins : ipc.procs[p].pc = "EXITED" /\ ipc.procs[p].lines = 0
    /\ \A p \in Chstats : /\ ipc.procs[p].pc = "EXITED"
                           /\ ipc.procs[p].i = 0
                           /\ ipc.procs[p].eval = 0


(***************************************************************************)
(* websh                                                                   *)
(***************************************************************************)
\* C28: spawn_worker always returns once the executed command can finish,
\* on the normal path and when forking the format worker fails, however
\* much output the running execute worker writes to the pipe.
C28_SpawnWorkerReturns == <>(ws.pc = "RETURNED")

\* the format worker could not be forked, the parent waits for the execute
\* worker with both pipe ends open, the pipe is full and the command has
\* more to write
C28_Witness ==
    /\ ws.pc = "WAIT_EXECUTE_ONLY"
    /\ ws.c1 = "RUNNING"
    /\ ws.c2 = "NONE"
    /\ ws.parent = BothEnds
    /\ ws.pipe = PipeCapacity
    /\ ws.out > 0


(***************************************************************************)
(* Combination Tree Builder and Candidate Generator, node by node          *)
(***************************************************************************)
\* the count and the position mask possible[] holds for a color
CountOf(c) == possible[c] \div Pow2(SLOTS)

MaskOf(c) == BitAnd(possible[c], ALL_SLOTS, 8)

\* every node of the chain and of the sub-trees below it, the chain hanging
\* under a parent whose remaining-free mask is F: the combination lies in
\* the color's mask and in F, has the color's count of bits, and the node's
\* mask is F without the combination
RECURSIVE NodesSound(_, _)
NodesSound(chain, F) ==
    \A x \in DOMAIN chain :
        LET n == chain[x]
        IN  /\ BitAnd(n.combination, BitAnd(MaskOf(n.color), F, 8), 8) = n.combination
            /\ SetBits[n.combination] = CountOf(n.color)
            /\ n.mask = AndNot8(F, n.combination)
            /\ NodesSound(n.first_child, n.mask)

\* C31: every node of the built combination tree for color c under a parent
\* with remaining-free mask F (all 5 slots at the root) has a combination
\* that is a subset of mask(c) and F with exactly count(c) bits set, and the
\* node's own remaining-free mask is F without the bits of its combination.
C31_NodesWithinMaskAndCount ==
    comb # <<>> => NodesSound(comb, ALL_SLOTS)

\* a built tree of at least two levels with siblings on the second level
C31_Witness ==
    /\ comb # <<>>
    /\ \E x \in DOMAIN comb :
          /\ Len(comb[x].first_child) >= 2
          /\ comb[x].mask # ALL_SLOTS

\* the values that lie inside the mask and have count bits set
Fitting(mask, count) ==
    {v \in 0..255 : BitAnd(v, mask, 8) = v /\ calculate_set_bits(v, 8) = count}

\* the smallest fitting value greater than last, 0 when there is none
NextFitting(last, mask, count) ==
    LET S == {v \in Fitting(mask, count) : v > last}
    IN  IF S = {} THEN 0 ELSE CHOOSE v \in S : \A w \in S : v <= w

\* C32: compute_combination(last, mask, count) returns the numerically
\* smallest value greater than last that is a subset of mask and has exactly
\* count bits set, or 0 when no such value exists; so when the enumeration
\* for one color under one parent has ended, the chain of sibling nodes
\* carries every such mask exactly once.
C32_NextCombinationAllOnce ==
    pc = "RETURNED" /\ Len(arg) = 4 =>
        /\ ret = NextFitting(arg[1], arg[2], arg[3])
        /\ ret = 0 =>
              /\ {comb[x].combination : x \in DOMAIN comb}
                    = Fitting(arg[2], arg[3]) \ {0}
              /\ Len(comb) = Cardinality(Fitting(arg[2], arg[3]) \ {0})

\* an enumeration that ended after at least three siblings, over a mask
\* with gaps, smaller than the parent's mask
C32_Witness ==
    /\ pc = "RETURNED"
    /\ Len(arg) = 4
    /\ ret = 0
    /\ Len(comb) >= 3
    /\ arg[2] \notin {1, 3, 7, 15, 31}
    /\ arg[2] # arg[4]

\* the root-to-leaf paths of a tree in the order process_combinations walks
\* them: a node's sub-tree before its next sibling
RECURSIVE PathSeq(_)
PathSeq(chain) ==
    IF chain = <<>> THEN <<>>
    ELSE LET n == chain[1]
             e == <<n.color, n.combination>>
             sub == PathSeq(n.first_child)
             below == IF n.first_child = <<>> THEN << <<e>> >>
                      ELSE [x \in DOMAIN sub |-> <<e>> \o sub[x]]
         IN  below \o PathSeq(Tail(chain))

\* C33: each candidate appended by the Candidate Generator is exactly the
\* assignment of its own root-to-leaf path (slot s holds color c iff the
\* path's node for c has bit s set), nothing written for a sibling or a
\* sibling's sub-tree shows in it, and a leaf yields a candidate only when
\* its path assigns all 5 slots: the candidates are, in order, the codes of
\* the paths that cover all slots.
C33_CandidateIsItsPath ==
    pc = "ROUND_LOOP" /\ FirstRound =>
        LET full == SelectSeq(PathSeq(comb), PathFull)
        IN  /\ Len(CandidateSeq) = Len(full)
            /\ \A k \in DOMAIN full :
                  heap[CandidateSeq[k]].combination = PathCode(full[k])

\* candidates from a tree of three levels in which a node with a sub-tree
\* has a later sibling, and a path that ends before all slots are assigned
C33_Witness ==
    /\ pc = "ROUND_LOOP"
    /\ FirstRound
    /\ Len(CandidateSeq) >= 3
    /\ \E q \in Paths(comb) : PathFull(q) /\ Len(q) >= 3
    /\ \E x \in DOMAIN comb : x < Len(comb) /\ comb[x].first_child # <<>>
    /\ \E q \in Paths(comb) : ~PathFull(q)

\* the colors possible[] allows in slot s
AllowedAt(s) ==
    {c \in 0..(COLORS - 1) : s \in MaskSlots(MaskOf(c))}

\* the codes that fill the slots from s on with allowed colors, color c
\* in exactly left[c] of them (COLOR_WIDTH bits a slot)
RECURSIVE FittingCodes(_, _)
FittingCodes(s, left) ==
    IF s >= SLOTS
    THEN IF \A c \in 0..(COLORS - 1) : left[c] = 0 THEN {0} ELSE {}
    ELSE UNION {{c * Pow2(COLOR_WIDTH * s) + r :
                    r \in FittingCodes(s + 1, [left EXCEPT ![c] = @ - 1])} :
                c \in {d \in AllowedAt(s) : left[d] > 0}}

\* the codes in which every color c sits in exactly count(c) slots, all of
\* them inside c's position mask
Assignments == FittingCodes(0, [c \in 0..(COLORS - 1) |-> CountOf(c)])

\* C34: the generated candidate list contains exactly the codes in which
\* every color c occupies exactly count(c) slots, all of them inside c's
\* position mask; each such code appears once and no other code appears.
C34_CandidatesAreTheFittingCodes ==
    pc = "ROUND_LOOP" /\ FirstRound =>
        /\ {heap[a].combination : a \in SeqToSet(CandidateSeq)}
              = Assignments
        /\ Len(CandidateSeq) = Cardinality(Assignments)

\* a generated list of several candidates over at least three colors, one
\* of them barred from some slot
C34_Witness ==
    /\ pc = "ROUND_LOOP"
    /\ FirstRound
    /\ Len(CandidateSeq) >= 4
    /\ Cardinality({c \in 0..(COLORS - 1) : CountOf(c) > 0}) >= 3
    /\ \E c \in 0..(COLORS - 1) : CountOf(c) > 0 /\ MaskOf(c) # ALL_SLOTS

\* a round of the loop of analyse_combinations that removed curr from the
\* candidates and goes on
RemovalStep ==
    /\ \/ pc = "ROUND_LOOP" /\ pc' = "ROUND_LOOP"
       \/ pc = "REMOVE"
    /\ curr # NULL
    /\ curr \notin DOMAIN heap'

\* the sequence without its element c
Without(q, c) == SelectSeq(q, LAMBDA a : a # c)

\* the candidate list (h, fp, lp) is well formed: first_perm and last_perm
\* are its two ends and every prev is the mirror of a next
WellFormed(h, fp, lp) ==
    LET q == Chain(h, fp)
    IN  /\ fp \in DOMAIN h \cup {NULL}
        /\ \A a \in SeqToSet(q) : h[a].next \in DOMAIN h \cup {NULL}
        /\ Cardinality(SeqToSet(q)) = Len(q)
        /\ lp = IF q = <<>> THEN NULL ELSE q[Len(q)]
        /\ \A k \in DOMAIN q :
              h[q[k]].prev = IF k = 1 THEN NULL ELSE q[k - 1]

\* C35: removing the tested candidate from the candidate list (head,
\* middle, tail or only element) leaves the remaining candidates in their
\* previous relative order and keeps the list well formed: first/last
\* pointers and every prev/next pair stay mutually consistent and the
\* removed node is reachable from none of them.
C35_RemovalKeepsOrderAndLinks ==
    [][RemovalStep =>
          /\ Chain(heap', first_perm') = Without(Chain(heap, first_perm), curr)
          /\ WellFormed(heap', first_perm', last_perm')
          /\ \A a \in SeqToSet(Chain(heap', first_perm')) :
                heap'[a].next # curr /\ heap'[a].prev # curr
          /\ first_perm' # curr
          /\ last_perm' # curr]_vars

\* the middle one of three candidates has been removed
C35_Witness ==
    /\ pc = "REMOVED"
    /\ nalloc = 3
    /\ DOMAIN heap = {1, 3}
    /\ Chain(heap, first_perm) = <<1, 3>>

\* C36: within one game against a truthful arbiter no code is submitted to
\* the arbiter twice, across partition probes, color probes and round-loop
\* guesses: the code of every request sent differs from the codes of all
\* requests sent before, which the processed list records.
C36_NoCodeSubmittedTwice ==
    [][round' # round =>
          Received(request_buf')
              \notin {NodeCode(heap, a) : a \in SeqToSet(ProcessedSeq)}]_vars

\* a game in its round loop, after partition probes, color probes and at
\* least two guesses of the loop have been submitted
C36_Witness ==
    /\ pc = "ROUND_LOOP"
    /\ Cardinality(DOMAIN heap) + 2 <= nalloc
    /\ Len(ProcessedSeq) >= 6
    /\ round = Len(ProcessedSeq)

\* following next from a leads to a node that is no longer allocated
RECURSIVE Dangling(_, _)
Dangling(h, a) ==
    IF a = NULL THEN FALSE
    ELSE IF a \notin DOMAIN h THEN TRUE
    ELSE Dangling(h, h[a].next)

\* what free_resources is about to free is all still allocated: the nodes
\* of both lists and the tree game->comb points to
FreesOnlyLive ==
    /\ ~Dangling(heap, first_perm)
    /\ ~Dangling(heap, processed)
    /\ TreeSize(comb) <= tree_live

\* C37: a termination signal delivered at any point of the game, whose
\* handler runs free_resources, never makes free_resources read a session
\* that is allocated but not yet initialised, and never frees a tree node,
\* candidate or processed record that the interrupted code has already
\* freed.
C37_SignalAtAnyPointIsSafe ==
    [][SignalAnywhere => game # "UNINITIALISED" /\ FreesOnlyLive]_vars

\* the second half on its own: whenever the handler may run, everything
\* free_resources would free is still allocated
NothingFreedTwice ==
    pc \notin {"EXITED", "KILLED"} /\ game = "ALLOCATED" => FreesOnlyLive

\* the handler has run between free(curr) and find_best_perm, after the
\* tree was stored: curr was gone, the rest of the candidates, the
\* processed records and the tree have been released
C37_Witness ==
    /\ pc = "EXITED"
    /\ terminating = 1
    /\ exitcode = EXIT_SUCCESS
    /\ curr # NULL
    /\ nalloc > 0
    /\ heap = <<>>
    /\ first_perm # curr
    /\ round >= 6

\* process p is between a semdown(mtx) that succeeded and the semup(mtx) or
\* semrm(mtx) that follows it (the creator of the segment, at INIT_OPEN, has
\* not downed mtx)
InSection(p) ==
    ipc.procs[p].pc \in {"INIT_UP", "LISTENER_UP", "WRITE_DATA", "PROCESS_DATA",
                         "STAT_UP", "SHUTDOWN_SHM", "SHUTDOWN_SEM"}

Inside == {p \in DOMAIN ipc.procs : InSection(p)}

\* C38: in chstat/readin at most one process at a time is inside a section
\* guarded by the mutex semaphore (between semdown(mtx) and semup(mtx)),
\* and the shared memory segment is never initialised, written, read or
\* removed by one process while another process is inside such a section:
\* the accesses made inside a section are covered by the first half, the
\* one made outside is the creator's memset and flag.
C38_OneProcessInMutexSection ==
    [][/\ Cardinality(Inside') <= 1
       /\ ipc'.nshm # ipc.nshm => Inside = {}]_vars

\* a process is inside a section while another one waits at a semdown(mtx)
\* on the same semaphore
C38_Witness ==
    \E p, q \in DOMAIN ipc.procs :
        /\ InSection(p)
        /\ ipc.procs[q].pc \in {"INIT_DOWN", "LISTENER_DOWN", "WRITE_MTX",
                                "PROCESS_MTX", "SHUTDOWN_MTX"}
        /\ ipc.procs[q].mtx = ipc.procs[p].mtx
        /\ ipc.val = 0

\* the EOF flag is set in the segment process p has attached
EofSet(p) == BitAnd(ipc.seg[ipc.procs[p].shared].flag, EOF_F, 8) = EOF_F

\* process p takes the step from "from" to "to"
Moves(p, from, to) ==
    /\ ipc.procs[p].pc = from
    /\ ipc'.procs[p].pc = to

\* a semaphore operation of ipc_process() fails in this step of p
ProcessSemFails(p) ==
    \/ ipc.procs[p].pc \in {"PROCESS_DOWN", "PROCESS_UP"} /\ ~CndValid(p)
    \/ ipc.procs[p].pc \in {"PROCESS_MTX", "PROCESS_DATA"} /\ ~MtxValid(p)

\* C39: chstat's ipc_process returns 0 exactly when a writer has set the
\* EOF flag in shared memory; when the EOF flag is not set it returns the
\* number of characters it counted, and it returns -1 when a semaphore
\* operation fails.  (i is the value ipc_process is going to return; the
\* buffer is looked at in the step from PROCESS_DATA to PROCESS_UP.)
C39_ProcessReturnsZeroOnEof ==
    [][\A p \in DOMAIN ipc.procs :
          /\ ProcessSemFails(p) /\ ipc'.procs[p].pc # ipc.procs[p].pc
                => ipc'.procs[p].i = -1
          /\ Moves(p, "PROCESS_DATA", "PROCESS_UP") /\ MtxValid(p)
                => /\ ipc'.procs[p].i = 0 <=> EofSet(p)
                   /\ ~EofSet(p) =>
                         ipc'.procs[p].i = ipc.seg[ipc.procs[p].shared].data]_vars

\* a chstat has counted a line and, later, got 0 from ipc_process after a
\* readin had set the EOF flag
C39_Witness ==
    \E p \in Chstats :
        /\ ipc.procs[p].pc = "PROCESS_UP"
        /\ ipc.procs[p].i = 0
        /\ ipc.procs[p].shared # -1
        /\ EofSet(p)
        /\ \E q \in Readins : ipc.procs[q].lines < MaxLines

\* main() of readin goes on as it does after ipc_write() returned 0: it reads
\* the next line, or detaches and exits after the EOF mark
WriteReturnsZero(p) ==
    /\ ipc.procs[p].pc = "WRITE_UP"
    /\ ipc'.procs[p].pc \in {"LISTENER_DOWN", "EXITED"}

\* main() of readin bails out as it does after ipc_write() returned -1
WriteReturnsError(p) ==
    /\ ipc.procs[p].pc = "WRITE_UP"
    /\ ipc'.procs[p].pc = "SHUTDOWN"
    /\ ipc'.procs[p].eval = EXIT_FAILURE

\* C40: readin's ipc_write returns -1 whenever acquiring or releasing the
\* mutex fails (the line or EOF mark may not have been written), and returns
\* 0 only when the data was written and the read queue was signalled.  (ret
\* is 0 before the read queue is signalled exactly if mtx was taken, the data
\* written and mtx released.)
C40_WriteFailsWithTheMutex ==
    [][\A p \in Readins :
          /\ ipc.procs[p].pc = "WRITE_UP" /\ ipc'.procs[p].pc # "WRITE_UP"
             /\ ipc.procs[p].ret = -1
                => WriteReturnsError(p)
          /\ WriteReturnsZero(p)
                => ipc.procs[p].ret = 0 /\ ipc'.read = ipc.read + 1]_vars

\* a readin could not take mtx, has written nothing and is about to signal
\* the read queue of a cnd that is still there
C40_Witness ==
    \E p \in Readins :
        /\ ipc.procs[p].pc = "WRITE_UP"
        /\ ipc.procs[p].ret = -1
        /\ ~MtxValid(p)
        /\ CndValid(p)

=============================================================================
